---------------------------- MODULE Spec2Model ----------------------------
(***************************************************************************)
(* Evaluation and ranking engine of the mathematical approximation         *)
(* evaluator: src/server.js (MathEvaluator, POST /api/evaluate,            *)
(* POST /api/evaluate-batch) and parser.js (src/unnamed/part_000,          *)
(* parseApproximation / parseBatch).                                       *)
(*                                                                         *)
(* Text is a sequence of one-character strings.  Numbers are decimal       *)
(* floating point values over digit sequences: decimal.js values carry the *)
(* configured precision, a JavaScript number carries at most DoubleDigits  *)
(* significant digits (what Number.prototype.toString can emit).           *)
(***************************************************************************)
EXTENDS Integers, Sequences, FiniteSets, TLC

VARIABLES request, response, handler, client

vars == <<request, response, handler, client>>

\* the value of a function of one argument: The([x \in {e} |-> body]) is
\* body with x standing for the value of e
The(f) == f[CHOOSE x \in DOMAIN f : TRUE]

---------------------------------------------------------------------------
(* Characters and JavaScript string primitives                             *)

Digit == {"0","1","2","3","4","5","6","7","8","9"}

LowerLetter ==
  {"a","b","c","d","e","f","g","h","i","j","k","l","m",
   "n","o","p","q","r","s","t","u","v","w","x","y","z"}

UpperToLower ==
  [c \in {"A","B","C","D","E","F","G","H","I","J","K","L","M",
          "N","O","P","Q","R","S","T","U","V","W","X","Y","Z"} |->
     CASE c = "A" -> "a" [] c = "B" -> "b" [] c = "C" -> "c" [] c = "D" -> "d"
       [] c = "E" -> "e" [] c = "F" -> "f" [] c = "G" -> "g" [] c = "H" -> "h"
       [] c = "I" -> "i" [] c = "J" -> "j" [] c = "K" -> "k" [] c = "L" -> "l"
       [] c = "M" -> "m" [] c = "N" -> "n" [] c = "O" -> "o" [] c = "P" -> "p"
       [] c = "Q" -> "q" [] c = "R" -> "r" [] c = "S" -> "s" [] c = "T" -> "t"
       [] c = "U" -> "u" [] c = "V" -> "v" [] c = "W" -> "w" [] c = "X" -> "x"
       [] c = "Y" -> "y" [] c = "Z" -> "z"]

\* String.prototype.toLowerCase
ToLowerCase(s) ==
  [i \in 1..Len(s) |-> IF s[i] \in DOMAIN UpperToLower THEN UpperToLower[s[i]] ELSE s[i]]

\* the regular-expression class \w
IsWordChar(c) == c \in LowerLetter \cup DOMAIN UpperToLower \cup Digit \cup {"_"}

\* the regular-expression assertion \b between positions i-1 and i of s
WordBoundary(s, i) ==
  (i > 1 /\ i - 1 <= Len(s) /\ IsWordChar(s[i-1])) # (i >= 1 /\ i <= Len(s) /\ IsWordChar(s[i]))

MatchAt(s, i, pat) ==
  /\ i + Len(pat) - 1 <= Len(s)
  /\ SubSeq(s, i, i + Len(pat) - 1) = pat

\* the concatenation of the sequences segs[lo..hi]
RECURSIVE Flatten(_, _, _)
Flatten(segs, lo, hi) ==
  IF lo > hi THEN <<>>
  ELSE IF lo = hi THEN segs[lo]
  ELSE LET mid == (lo + hi) \div 2
       IN  Flatten(segs, lo, mid) \o Flatten(segs, mid + 1, hi)

\* the text with every match replaced, given the set of the positions
\* where a match of length n starts (matches do not overlap)
Substitute(s, n, starts, rep) ==
  IF starts = {} THEN s
  ELSE
  Flatten([i \in 1..Len(s) |->
             IF i \in starts THEN rep
             ELSE IF \E j \in (i - n + 1)..(i - 1) : j \in starts THEN <<>>
             ELSE <<s[i]>>], 1, Len(s))

\* s.replace(/pat/g, rep) for a literal pattern no occurrence of which
\* overlaps another (no proper prefix of pat is a suffix of it): every
\* occurrence is replaced, the inserted text is not scanned again
ReplaceAll(s, pat, rep) ==
  IF pat = <<>> THEN s
  ELSE Substitute(s, Len(pat), {i \in 1..Len(s) : MatchAt(s, i, pat)}, rep)

MatchWordAt(s, i, name) ==
  /\ MatchAt(s, i, name)
  /\ WordBoundary(s, i)
  /\ WordBoundary(s, i + Len(name))

\* s.replace(/\bname\b/g, rep) for a name made of word characters (two
\* whole-word occurrences cannot overlap)
ReplaceWord(s, name, rep) ==
  IF name = <<>> THEN s
  ELSE Substitute(s, Len(name), {i \in 1..Len(s) : MatchWordAt(s, i, name)}, rep)

---------------------------------------------------------------------------
(* Natural numbers as digit sequences, most significant digit first        *)

\* d without its leading zeros (one digit is kept)
StripZeros(d) ==
  IF \A i \in 1..Len(d) : d[i] = 0 THEN <<0>>
  ELSE SubSeq(d, CHOOSE i \in 1..Len(d) : d[i] # 0 /\ \A j \in 1..(i-1) : d[j] = 0, Len(d))

NNorm(d) == IF d = <<>> THEN <<0>> ELSE StripZeros(d)

NIsZero(d) == \A i \in 1..Len(d) : d[i] = 0

Zeros(n) == [i \in 1..n |-> 0]

Max(a, b) == IF a >= b THEN a ELSE b

Min(a, b) == IF a <= b THEN a ELSE b

\* a < b, both without leading zeros
NLess(a, b) ==
  \/ Len(a) < Len(b)
  \/ /\ Len(a) = Len(b)
     /\ \E i \in 1..Len(a) : a[i] < b[i] /\ \A j \in 1..(i-1) : a[j] = b[j]

\* schoolbook addition; the carry into a position is decided by the first
\* position to its right whose digit sum is not 9
NAdd(a, b) ==
  LET CarryIn(sm, n, i) ==
        \E j \in (i+1)..n : sm[j] >= 10 /\ \A k \in (i+1)..(j-1) : sm[k] = 9
      Carried(sm, n) ==
        NNorm(SubSeq([i \in 1..n |-> (sm[i] + IF CarryIn(sm, n, i) THEN 1 ELSE 0) % 10], 1, n))
      Sums(n) ==
        Carried(SubSeq([i \in 1..n |-> (IF i <= n - Len(a) THEN 0 ELSE a[i - (n - Len(a))])
                                      + (IF i <= n - Len(b) THEN 0 ELSE b[i - (n - Len(b))])], 1, n), n)
  IN  Sums(Max(Len(a), Len(b)) + 1)

\* a - b for a >= b; the borrow from a position is decided by the first
\* position to its right where the digits differ
NSub(a, b) ==
  LET BorrowIn(df, n, i) ==
        \E j \in (i+1)..n : df[j] < 0 /\ \A k \in (i+1)..(j-1) : df[k] = 0
      Borrowed(df, n) ==
        NNorm(SubSeq([i \in 1..n |-> (df[i] - (IF BorrowIn(df, n, i) THEN 1 ELSE 0) + 10) % 10], 1, n))
      Differences(n) ==
        Borrowed(SubSeq([i \in 1..n |-> (IF i <= n - Len(a) THEN 0 ELSE a[i - (n - Len(a))])
                                       - (IF i <= n - Len(b) THEN 0 ELSE b[i - (n - Len(b))])], 1, n), n)
  IN  Differences(Max(Len(a), Len(b)))

\* a * m for a digit m
RECURSIVE NMulDigit(_, _)
NMulDigit(a, m) ==
  IF m = 0 THEN <<0>>
  ELSE IF m = 1 THEN a
  ELSE The([h \in {NMulDigit(a, m \div 2)} |->
              NAdd(NAdd(h, h), IF m % 2 = 1 THEN a ELSE <<0>>)])

\* a * b[lo..hi]
RECURSIVE NMulRange(_, _, _, _)
NMulRange(a, b, lo, hi) ==
  IF lo = hi THEN NMulDigit(a, b[lo])
  ELSE LET mid == (lo + hi) \div 2
       IN  NAdd(NNorm(NMulRange(a, b, lo, mid) \o Zeros(hi - mid)),
                NMulRange(a, b, mid + 1, hi))

NMul(a, b) == NMulRange(a, b, 1, Len(b))

\* long division of the digits n[lo..hi] brought down after the remainder
\* rem, by the divisor whose multiples 0..10 are mult: the hi-lo+1 quotient
\* digits and the new remainder
RECURSIVE NDivRange(_, _, _, _, _)
NDivRange(n, mult, lo, hi, rem) ==
  IF lo = hi
  THEN The([cur \in {NNorm(Append(rem, n[lo]))} |->
              The([k \in {CHOOSE c \in 0..9 : NLess(cur, mult[c + 2])} |->
                     [q |-> <<k>>, r |-> NSub(cur, mult[k + 1])]])])
  ELSE The([left \in {NDivRange(n, mult, lo, (lo + hi) \div 2, rem)} |->
              The([rght \in {NDivRange(n, mult, (lo + hi) \div 2 + 1, hi, left.r)} |->
                     [q |-> left.q \o rght.q, r |-> rght.r]])])

\* quotient and remainder of n by d (d not zero)
NDivMod(n, d) ==
  The([mult \in {SubSeq([k \in 1..11 |-> NMulDigit(NNorm(d), k - 1)], 1, 11)} |->
         The([res \in {NDivRange(n, mult, 1, Len(n), <<0>>)} |->
                [q |-> NNorm(res.q), r |-> res.r]])])

\* the digits of a natural number of the model's integers
RECURSIVE NatDigits(_)
NatDigits(n) == IF n < 10 THEN <<n>> ELSE Append(NatDigits(n \div 10), n % 10)

---------------------------------------------------------------------------
(* Decimal floating point values: (-1)^neg * d * 10^x, or NaN, +-Infinity  *)

Fin(neg, d, x) == [k |-> "fin", neg |-> neg, d |-> d, x |-> x]

NaNValue == [k |-> "nan", neg |-> FALSE, d |-> <<0>>, x |-> 0]

Inf(neg) == [k |-> "inf", neg |-> neg, d |-> <<0>>, x |-> 0]

ZeroValue == Fin(FALSE, <<0>>, 0)

\* d (not zero) without its trailing zeros, the exponent raised to match
StripTrailing(d, x) ==
  LET Cut(l) == [d |-> SubSeq(d, 1, l), x |-> x + (Len(d) - l)]
  IN  Cut(CHOOSE i \in 1..Len(d) : d[i] # 0 /\ \A j \in (i+1)..Len(d) : d[j] = 0)

\* canonical form: no leading or trailing zero digits, one zero
Normalize(neg, d, x) ==
  LET Canonical(t) == Fin(neg, t.d, t.x)
      Stripped(n) == IF NIsZero(n) THEN ZeroValue ELSE Canonical(StripTrailing(n, x))
  IN  Stripped(NNorm(d))

IsZero(v) == v.k = "fin" /\ NIsZero(v.d)

IsFinite(v) == v.k = "fin"

\* the exponent of the leading digit (decimal.js e, ECMAScript n - 1)
LeadExp(v) == Len(v.d) + v.x - 1

\* rounding to p significant digits, half away from zero
RoundTo(v, p) ==
  IF v.k # "fin" \/ Len(v.d) <= p THEN v
  ELSE Normalize(v.neg, NAdd(SubSeq(v.d, 1, p), IF v.d[p + 1] >= 5 THEN <<1>> ELSE <<0>>),
                 v.x + (Len(v.d) - p))

Negate(v) ==
  IF v.k = "nan" \/ IsZero(v) THEN v ELSE [v EXCEPT !.neg = ~v.neg]

Abs(v) == [v EXCEPT !.neg = FALSE]

\* both coefficients brought to the smaller exponent
AlignedD(v, x) == NNorm(v.d \o Zeros(v.x - x))

AddExact(a, b) ==
  IF a.k = "nan" \/ b.k = "nan" THEN NaNValue
  ELSE IF a.k = "inf" /\ b.k = "inf" THEN (IF a.neg = b.neg THEN a ELSE NaNValue)
  ELSE IF a.k = "inf" THEN a
  ELSE IF b.k = "inf" THEN b
  ELSE The([da \in {AlignedD(a, Min(a.x, b.x))} |->
         The([db \in {AlignedD(b, Min(a.x, b.x))} |->
           IF a.neg = b.neg THEN Normalize(a.neg, NAdd(da, db), Min(a.x, b.x))
           ELSE The([less \in {NLess(da, db)} |->
                  Normalize(IF less THEN b.neg ELSE a.neg,
                            NSub(IF less THEN db ELSE da, IF less THEN da ELSE db),
                            Min(a.x, b.x))])])])

SubExact(a, b) == AddExact(a, Negate(b))

MulExact(a, b) ==
  IF a.k = "nan" \/ b.k = "nan" THEN NaNValue
  ELSE IF a.k = "inf" \/ b.k = "inf"
       THEN (IF IsZero(a) \/ IsZero(b) THEN NaNValue ELSE Inf(a.neg # b.neg))
  ELSE Normalize(a.neg # b.neg, NMul(a.d, b.d), a.x + b.x)

\* a / b to p significant digits; x/0 is +-Infinity, 0/0 is NaN
DivTo(a, b, p) ==
  IF a.k = "nan" \/ b.k = "nan" THEN NaNValue
  ELSE IF a.k = "inf" THEN (IF b.k = "inf" THEN NaNValue ELSE Inf(a.neg # b.neg))
  ELSE IF b.k = "inf" THEN ZeroValue
  ELSE IF IsZero(b) THEN (IF IsZero(a) THEN NaNValue ELSE Inf(a.neg # b.neg))
  ELSE IF IsZero(a) THEN ZeroValue
  ELSE LET s == Max(0, p + 1 + Len(b.d) - Len(a.d))
       IN  RoundTo(Normalize(a.neg # b.neg, NDivMod(a.d \o Zeros(s), b.d).q, a.x - b.x - s), p)

Less(a, b) ==
  LET Negative(diff) == diff.k # "nan" /\ ~IsZero(diff) /\ diff.neg
  IN  Negative(SubExact(a, b))

---------------------------------------------------------------------------
(* Numbers and text                                                        *)

DigitVal ==
  [c \in Digit |->
     CASE c = "0" -> 0 [] c = "1" -> 1 [] c = "2" -> 2 [] c = "3" -> 3 [] c = "4" -> 4
       [] c = "5" -> 5 [] c = "6" -> 6 [] c = "7" -> 7 [] c = "8" -> 8 [] c = "9" -> 9]

DigitChar == <<"1","2","3","4","5","6","7","8","9">>

CharOf(n) == IF n = 0 THEN "0" ELSE DigitChar[n]

DigitsText(d) == [i \in 1..Len(d) |-> CharOf(d[i])]

TextDigits(s) == [i \in 1..Len(s) |-> DigitVal[s[i]]]

\* the first position at or after i that holds no digit
DigitsEnd(s, i) ==
  CHOOSE j \in i..Max(i, Len(s) + 1) :
    /\ j > Len(s) \/ s[j] \notin Digit
    /\ \A k \in i..(j-1) : s[k] \in Digit

RECURSIVE DigitsToInt(_, _)
DigitsToInt(d, acc) ==
  IF d = <<>> THEN acc ELSE DigitsToInt(Tail(d), acc * 10 + Head(d))

\* an unsigned decimal literal starting at position i:
\*   (\d+(\.\d*)?|\.\d+)(e[+-]?\d+)?
\* ok is FALSE when no literal starts at i; j is the position after it
ScanNumber(s, i) ==
  The([intEnd \in {DigitsEnd(s, i)} |->
    LET hasDot == intEnd <= Len(s) /\ s[intEnd] = "."
    IN  The([fracEnd \in {IF hasDot THEN DigitsEnd(s, intEnd + 1) ELSE intEnd} |->
          LET hasE  == fracEnd <= Len(s) /\ s[fracEnd] \in {"e", "E"}
              sgnAt == fracEnd + 1
          IN  The([hasSign \in {hasE /\ sgnAt <= Len(s) /\ s[sgnAt] \in {"+", "-"}} |->
                The([expEnd \in {IF hasE THEN DigitsEnd(s, IF hasSign THEN sgnAt + 1 ELSE sgnAt)
                                         ELSE fracEnd} |->
                  The([lit \in {[intD   |-> SubSeq(s, i, intEnd - 1),
                                 fracD  |-> IF hasDot THEN SubSeq(s, intEnd + 1, fracEnd - 1)
                                                      ELSE <<>>,
                                 expAt  |-> IF hasSign THEN sgnAt + 1 ELSE sgnAt,
                                 expEnd |-> expEnd,
                                 minus  |-> hasSign /\ s[sgnAt] = "-"]} |->
                    The([expVal \in {IF lit.expEnd > lit.expAt
                                     THEN DigitsToInt(TextDigits(
                                            SubSeq(s, lit.expAt, lit.expEnd - 1)), 0)
                                     ELSE 0} |->
                      [ok |-> lit.intD # <<>> \/ lit.fracD # <<>>,
                       j  |-> IF lit.expEnd > lit.expAt THEN lit.expEnd ELSE fracEnd,
                       v  |-> IF lit.intD # <<>> \/ lit.fracD # <<>>
                              THEN Normalize(FALSE, TextDigits(lit.intD \o lit.fracD),
                                     (IF lit.minus THEN 0 - expVal ELSE expVal)
                                       - Len(lit.fracD))
                              ELSE ZeroValue]])])])])])])

Txt_Infinity == <<"I","n","f","i","n","i","t","y">>

Txt_NaN == <<"N","a","N">>

\* new Decimal(text): the value, or ok = FALSE for [DecimalError] Invalid argument
DecimalFromText(s) ==
  LET neg == s # <<>> /\ s[1] = "-"
  IN  The([body \in {IF s # <<>> /\ s[1] \in {"-", "+"} THEN Tail(s) ELSE s} |->
        IF body = Txt_Infinity THEN [ok |-> TRUE, v |-> Inf(neg)]
        ELSE IF body = Txt_NaN THEN [ok |-> TRUE, v |-> NaNValue]
        ELSE The([n \in {ScanNumber(body, 1)} |->
               IF n.ok /\ n.j = Len(body) + 1
               THEN [ok |-> TRUE, v |-> IF neg THEN Negate(n.v) ELSE n.v]
               ELSE [ok |-> FALSE, v |-> NaNValue]])])

\* Number.prototype.toString and Decimal.prototype.toString: plain notation
\* for a leading exponent in -6..20, exponential notation otherwise
ToText(v) ==
  IF v.k = "nan" THEN Txt_NaN
  ELSE IF v.k = "inf" THEN (IF v.neg THEN <<"-">> ELSE <<>>) \o Txt_Infinity
  ELSE IF v.k # "fin" THEN <<"?">>
  ELSE IF IsZero(v) THEN <<"0">>
  ELSE LET Notation(dt, k, n, ex) ==
             IF k <= n /\ n <= 21 THEN dt \o DigitsText(Zeros(n - k))
             ELSE IF 0 < n /\ n <= 21 THEN SubSeq(dt, 1, n) \o <<".">> \o SubSeq(dt, n + 1, k)
             ELSE IF -6 < n /\ n <= 0 THEN <<"0", ".">> \o DigitsText(Zeros(0 - n)) \o dt
             ELSE <<dt[1]>> \o (IF k > 1 THEN <<".">> \o SubSeq(dt, 2, k) ELSE <<>>)
                  \o <<"e">> \o (IF ex < 0 THEN <<"-">> ELSE <<"+">>)
                  \o DigitsText(NatDigits(IF ex < 0 THEN 0 - ex ELSE ex))
       IN  (IF v.neg THEN <<"-">> ELSE <<>>)
           \o Notation(DigitsText(v.d), Len(v.d), LeadExp(v) + 1, LeadExp(v))

\* the object CONSTANTS: the text handed to new Decimal() for each name
CONSTANTS_values ==
  [ pi |->
      <<"3",".","1","4","1","5","9","2","6","5","3","5","8","9","7","9","3","2","3","8","4","6","2",
      "6","4","3","3","8","3","2","7","9","5","0","2","8","8","4","1","9","7","1","6","9","3","9",
      "9","3","7","5","1","0","5","8","2","0","9","7","4","9","4","4","5","9","2","3","0","7","8",
      "1","6","4","0","6","2","8","6","2","0","8","9","9","8","6","2","8","0","3","4","8","2","5",
      "3","4","2","1","1","7","0","6","7","9">>,
    e |->
      <<"2",".","7","1","8","2","8","1","8","2","8","4","5","9","0","4","5","2","3","5","3","6","0",
      "2","8","7","4","7","1","3","5","2","6","6","2","4","9","7","7","5","7","2","4","7","0","9",
      "3","6","9","9","9","5","9","5","7","4","9","6","6","9","6","7","6","2","7","7","2","4","0",
      "7","6","6","3","0","3","5","3","5","4","7","5","9","4","5","7","1","3","8","2","1","7","8",
      "5","2","5","1","6","6","4","2","7","4">>,
    phi |->
      <<"1",".","6","1","8","0","3","3","9","8","8","7","4","9","8","9","4","8","4","8","2","0","4",
      "5","8","6","8","3","4","3","6","5","6","3","8","1","1","7","7","2","0","3","0","9","1","7",
      "9","8","0","5","7","6","2","8","6","2","1","3","5","4","4","8","6","2","2","7","0","5","2",
      "6","0","4","6","2","8","1","8","9","0","2","4","4","9","7","0","7","2","0","7","2","0","4",
      "1","8","9","3","9","1","1","3","7","4">>,
    gamma |->
      <<"0",".","5","7","7","2","1","5","6","6","4","9","0","1","5","3","2","8","6","0","6","0","6",
      "5","1","2","0","9","0","0","8","2","4","0","2","4","3","1","0","4","2","1","5","9","3","3",
      "5","9","3","9","9","2","3","5","9","8","8","0","5","7","6","7","2","3","4","8","8","4","8",
      "6","7","7","2","6","7","7","7","6","6","4","6","7","0","9","3","6","9","4","7","0","6","3",
      "2","9","1","7","4","6","7","4","9","5">>,
    sqrt2 |->
      <<"1",".","4","1","4","2","1","3","5","6","2","3","7","3","0","9","5","0","4","8","8","0","1",
      "6","8","8","7","2","4","2","0","9","6","9","8","0","7","8","5","6","9","6","7","1","8","7",
      "5","3","7","6","9","4","8","0","7","3","1","7","6","6","7","9","7","3","7","9","9","0","7",
      "3","2","4","7","8","4","6","2","1","0","7","0","3","8","8","5","0","3","8","7","5","3","4",
      "3","2","7","6","4","1","5","7","2","7">>,
    sqrt3 |->
      <<"1",".","7","3","2","0","5","0","8","0","7","5","6","8","8","7","7","2","9","3","5","2","7",
      "4","4","6","3","4","1","5","0","5","8","7","2","3","6","6","9","4","2","8","0","5","2","5",
      "3","8","1","0","3","8","0","6","2","8","0","5","5","8","0","6","9","7","9","4","5","1","9",
      "3","3","0","1","6","9","0","8","8","0","0","0","3","7","0","8","1","1","4","6","1","8","6",
      "7","5","7","2","4","8","5","7","5","7">>,
    ln2 |->
      <<"0",".","6","9","3","1","4","7","1","8","0","5","5","9","9","4","5","3","0","9","4","1","7",
      "2","3","2","1","2","1","4","5","8","1","7","6","5","6","8","0","7","5","5","0","0","1","3",
      "4","3","6","0","2","5","5","2","5","4","1","2","0","6","8","0","0","0","9","4","9","3","3",
      "9","3","6","2","1","9","6","9","6","9","4","7","1","5","6","0","5","8","6","3","3","2","6",
      "9","9","6","4","1","8","6","8","7","5">> ]


---------------------------------------------------------------------------
(* JavaScript numbers and the mathjs evaluate() function                   *)
(*                                                                         *)
(* A JavaScript number is modelled as a decimal value of at most           *)
(* DoubleDigits significant digits; every arithmetic result is rounded to  *)
(* that many digits.  The grammar is the part of the mathjs expression     *)
(* language that the expressions of the model use: numbers, + - * / ^,     *)
(* unary minus, parentheses, symbols, one-argument calls, assignment,      *)
(* function assignment and ';'-separated blocks.                           *)

\* significant decimal digits of an IEEE-754 double as Number.prototype.toString
\* prints it (the result of evaluate(expr) in src/server.js:82 is a number)
DoubleDigits == 17

\* largest and smallest decimal exponent of a double
DoubleMaxExp == 308

DoubleMinExp == -324

\* values evaluate() returns that are not numbers
Other(kind) == [k |-> kind, neg |-> FALSE, d |-> <<0>>, x |-> 0]

ToNumber(v) ==
  LET InRange(r) ==
        IF r.k # "fin" \/ IsZero(r) THEN r
        ELSE IF LeadExp(r) > DoubleMaxExp THEN Inf(r.neg)
        ELSE IF LeadExp(r) < DoubleMinExp THEN ZeroValue
        ELSE r
  IN  InRange(RoundTo(v, DoubleDigits))

Num(text) == DecimalFromText(text).v

\* the functions of mathjs among those the model's expressions call; mathjs
\* defines log (natural logarithm) and no function named ln
MathjsFunctions ==
  { <<"s","q","r","t">>, <<"l","o","g">>, <<"e","x","p">>, <<"s","i","n">>, <<"c","o","s">>, <<"t","a","n">>, <<"a","s","i","n">>, <<"a","c","o","s">>,
    <<"a","t","a","n">>, <<"s","i","n","h">>, <<"c","o","s","h">>, <<"t","a","n","h">>, <<"a","b","s">> }

\* symbols mathjs defines by itself (lower-case spellings)
MathjsConstants ==
  { <<<<"p","i">>, <<"3",".","1","4","1","5","9","2","6","5","3","5","8","9","7","9","3">>>>, <<<<"e">>, <<"2",".","7","1","8","2","8","1","8","2","8","4","5","9","0","4","5">>>>,
    <<<<"p","h","i">>, <<"1",".","6","1","8","0","3","3","9","8","8","7","4","9","8","9","5">>>>, <<<<"t","a","u">>, <<"6",".","2","8","3","1","8","5","3","0","7","1","7","9","5","8","6">>>> }

\* the doubles the functions return at the arguments 0, 1 and 2
FunctionValues ==
  { <<<<"s","q","r","t">>, <<"0">>, <<"0">>>>,
    <<<<"s","q","r","t">>, <<"1">>, <<"1">>>>,
    <<<<"s","q","r","t">>, <<"2">>, <<"1",".","4","1","4","2","1","3","5","6","2","3","7","3","0","9","5","1">>>>,
    <<<<"l","o","g">>, <<"1">>, <<"0">>>>,
    <<<<"l","o","g">>, <<"2">>, <<"0",".","6","9","3","1","4","7","1","8","0","5","5","9","9","4","5","3">>>>,
    <<<<"e","x","p">>, <<"0">>, <<"1">>>>,
    <<<<"e","x","p">>, <<"1">>, <<"2",".","7","1","8","2","8","1","8","2","8","4","5","9","0","4","5">>>>,
    <<<<"e","x","p">>, <<"2">>, <<"7",".","3","8","9","0","5","6","0","9","8","9","3","0","6","5">>>>,
    <<<<"s","i","n">>, <<"0">>, <<"0">>>>,
    <<<<"s","i","n">>, <<"1">>, <<"0",".","8","4","1","4","7","0","9","8","4","8","0","7","8","9","6","5">>>>,
    <<<<"s","i","n">>, <<"2">>, <<"0",".","9","0","9","2","9","7","4","2","6","8","2","5","6","8","1","7">>>>,
    <<<<"c","o","s">>, <<"0">>, <<"1">>>>,
    <<<<"c","o","s">>, <<"1">>, <<"0",".","5","4","0","3","0","2","3","0","5","8","6","8","1","3","9","8">>>>,
    <<<<"c","o","s">>, <<"2">>, <<"-","0",".","4","1","6","1","4","6","8","3","6","5","4","7","1","4","2","4">>>>,
    <<<<"t","a","n">>, <<"0">>, <<"0">>>>,
    <<<<"t","a","n">>, <<"1">>, <<"1",".","5","5","7","4","0","7","7","2","4","6","5","4","9","0","2","3">>>>,
    <<<<"t","a","n">>, <<"2">>, <<"-","2",".","1","8","5","0","3","9","8","6","3","2","6","1","5","1","9">>>>,
    <<<<"a","s","i","n">>, <<"0">>, <<"0">>>>,
    <<<<"a","s","i","n">>, <<"1">>, <<"1",".","5","7","0","7","9","6","3","2","6","7","9","4","8","9","6","6">>>>,
    <<<<"a","c","o","s">>, <<"0">>, <<"1",".","5","7","0","7","9","6","3","2","6","7","9","4","8","9","6","6">>>>,
    <<<<"a","c","o","s">>, <<"1">>, <<"0">>>>,
    <<<<"a","t","a","n">>, <<"0">>, <<"0">>>>,
    <<<<"a","t","a","n">>, <<"1">>, <<"0",".","7","8","5","3","9","8","1","6","3","3","9","7","4","4","8","3">>>>,
    <<<<"a","t","a","n">>, <<"2">>, <<"1",".","1","0","7","1","4","8","7","1","7","7","9","4","0","9","0","4">>>>,
    <<<<"s","i","n","h">>, <<"0">>, <<"0">>>>,
    <<<<"s","i","n","h">>, <<"1">>, <<"1",".","1","7","5","2","0","1","1","9","3","6","4","3","8","0","1","4">>>>,
    <<<<"s","i","n","h">>, <<"2">>, <<"3",".","6","2","6","8","6","0","4","0","7","8","4","7","0","1","9">>>>,
    <<<<"c","o","s","h">>, <<"0">>, <<"1">>>>,
    <<<<"c","o","s","h">>, <<"1">>, <<"1",".","5","4","3","0","8","0","6","3","4","8","1","5","2","4","3","7">>>>,
    <<<<"c","o","s","h">>, <<"2">>, <<"3",".","7","6","2","1","9","5","6","9","1","0","8","3","6","3","1","4">>>>,
    <<<<"t","a","n","h">>, <<"0">>, <<"0">>>>,
    <<<<"t","a","n","h">>, <<"1">>, <<"0",".","7","6","1","5","9","4","1","5","5","9","5","5","7","6","4","9">>>>,
    <<<<"t","a","n","h">>, <<"2">>, <<"0",".","9","6","4","0","2","7","5","8","0","0","7","5","8","1","6","9">>>>,
    <<<<"e","x","p">>, <<"2",".","7","1","8","2","8","1","8","2","8","4","5","9","0","4","5","2">>, <<"1","5",".","1","5","4","2","6","2","2","4","1","4","7","9","2","6","2">>>> }

ApplyFunction(f, a) ==
  IF a.k = "complex" THEN a
  ELSE IF f = <<"a","b","s">> THEN Abs(a)
  ELSE IF a.k = "nan" THEN NaNValue
  ELSE IF f \in {<<"s","q","r","t">>, <<"l","o","g">>} /\ a.neg /\ ~IsZero(a) THEN Other("complex")
  ELSE IF f = <<"l","o","g">> /\ IsZero(a) THEN Inf(TRUE)
  ELSE IF f \in {<<"a","s","i","n">>, <<"a","c","o","s">>} /\ (a.k = "inf" \/ Less(Fin(FALSE, <<1>>, 0), Abs(a)))
       THEN Other("complex")
  ELSE Num((CHOOSE t \in FunctionValues : t[1] = f /\ t[2] = ToText(a))[3])

\* x ^ n for an integer n
RECURSIVE PowInt(_, _)
PowInt(x, n) ==
  IF n = 0 THEN Fin(FALSE, <<1>>, 0)
  ELSE IF n = 1 THEN x
  ELSE The([h \in {PowInt(x, n \div 2)} |->
              MulExact(MulExact(h, h), IF n % 2 = 1 THEN x ELSE Fin(FALSE, <<1>>, 0))])

NumAdd(a, b) ==
  IF a.k = "complex" \/ b.k = "complex" THEN Other("complex") ELSE ToNumber(AddExact(a, b))

NumSub(a, b) ==
  IF a.k = "complex" \/ b.k = "complex" THEN Other("complex") ELSE ToNumber(SubExact(a, b))

NumMul(a, b) ==
  IF a.k = "complex" \/ b.k = "complex" THEN Other("complex") ELSE ToNumber(MulExact(a, b))

NumDiv(a, b) ==
  IF a.k = "complex" \/ b.k = "complex" THEN Other("complex") ELSE ToNumber(DivTo(a, b, DoubleDigits))

\* pow with an integer exponent (the only exponents of the model's expressions)
NumPow(a, b) ==
  IF a.k = "complex" \/ b.k = "complex" THEN Other("complex")
  ELSE IF a.k = "nan" \/ b.k = "nan" THEN (IF IsZero(b) THEN Fin(FALSE, <<1>>, 0) ELSE NaNValue)
  ELSE ToNumber(The([p \in {PowInt(a, DigitsToInt(Abs(b).d \o Zeros(Abs(b).x), 0))} |->
                       IF b.neg THEN DivTo(Fin(FALSE, <<1>>, 0), p, DoubleDigits) ELSE p]))

NumNeg(a) == IF a.k = "complex" THEN a ELSE Negate(a)

IsSpace(c) == c \in {" "}

IsAlpha(c) == c \in LowerLetter \cup DOMAIN UpperToLower \cup {"_"}

SkipWs(s, i) ==
  CHOOSE j \in i..Max(i, Len(s) + 1) :
    /\ j > Len(s) \/ ~IsSpace(s[j])
    /\ \A k \in i..(j-1) : IsSpace(s[k])

IdentEnd(s, i) ==
  CHOOSE j \in i..Max(i, Len(s) + 1) :
    /\ j > Len(s) \/ ~IsWordChar(s[j])
    /\ \A k \in i..(j-1) : IsWordChar(s[k])

CharAt(s, i) == IF i >= 1 /\ i <= Len(s) THEN s[i] ELSE ""

\* a parse result: ok, the value, the position after the parsed text
PR(ok, v, i) == [ok |-> ok, v |-> v, i |-> i]

ParseFail == PR(FALSE, NaNValue, 0)

RECURSIVE ParseAddSub(_, _)
RECURSIVE AddSubRest(_, _, _, _)
RECURSIVE ParseMulDiv(_, _)
RECURSIVE MulDivRest(_, _, _, _)
RECURSIVE ParseUnary(_, _)
RECURSIVE ParsePow(_, _)
RECURSIVE ParsePrimary(_, _)

\* a number, a symbol, a parenthesised expression or a function call
ParsePrimary(s, i0) ==
  The([i \in {SkipWs(s, i0)} |->
    LET c      == CharAt(s, i)
        isName == c # "" /\ IsAlpha(c)
    IN  The([e \in {IF isName THEN IdentEnd(s, i) ELSE i} |->
          LET name == IF isName THEN SubSeq(s, i, e - 1) ELSE <<>>
              open == IF isName THEN SkipWs(s, e) ELSE i
          IN  IF c = "(" \/ (isName /\ CharAt(s, open) = "(") THEN
                The([a \in {ParseAddSub(s, open + 1)} |->
                  The([q \in {IF a.ok THEN SkipWs(s, a.i) ELSE 0} |->
                    IF ~(a.ok /\ CharAt(s, q) = ")") THEN ParseFail
                    ELSE IF name = <<>> THEN PR(TRUE, a.v, q + 1)
                    ELSE IF name \in MathjsFunctions
                         THEN PR(TRUE, ApplyFunction(name, a.v), q + 1)
                    ELSE ParseFail])])
              ELSE IF c \in Digit \cup {"."} THEN
                The([n \in {ScanNumber(s, i)} |->
                  IF n.ok THEN PR(TRUE, ToNumber(n.v), n.j) ELSE ParseFail])
              ELSE IF ~isName THEN ParseFail
              ELSE IF name = <<"i">> THEN PR(TRUE, Other("complex"), e)
              ELSE IF \E t \in MathjsConstants : t[1] = name
                   THEN PR(TRUE, Num((CHOOSE t \in MathjsConstants : t[1] = name)[2]), e)
              ELSE ParseFail])])

\* the operand of ^ is parsed as a unary expression: 2^-1, and -2^2 = -(2^2)
ParsePow(s, i0) ==
  The([b \in {ParsePrimary(s, i0)} |->
    IF ~b.ok THEN ParseFail
    ELSE The([j \in {SkipWs(s, b.i)} |->
           IF CharAt(s, j) # "^" THEN b
           ELSE The([e \in {ParseUnary(s, j + 1)} |->
                  IF e.ok THEN PR(TRUE, NumPow(b.v, e.v), e.i) ELSE ParseFail])])])

ParseUnary(s, i0) ==
  The([i \in {SkipWs(s, i0)} |->
    IF CharAt(s, i) \notin {"-", "+"} THEN ParsePow(s, i)
    ELSE The([r \in {ParseUnary(s, i + 1)} |->
           IF ~r.ok THEN ParseFail
           ELSE IF s[i] = "-" THEN PR(TRUE, NumNeg(r.v), r.i)
           ELSE r])])

\* the operand at i0 joined to acc by op ("" for the first operand), then
\* the operators * and / that follow, left to right
MulDivRest(s, acc, op, i0) ==
  The([r \in {ParseUnary(s, i0)} |->
    IF ~r.ok THEN ParseFail
    ELSE The([i \in {SkipWs(s, r.i)} |->
           The([v \in {IF op = "*" THEN NumMul(acc, r.v)
                       ELSE IF op = "/" THEN NumDiv(acc, r.v)
                       ELSE r.v} |->
             IF CharAt(s, i) \in {"*", "/"} THEN MulDivRest(s, v, s[i], i + 1)
             ELSE PR(TRUE, v, i)])])])

ParseMulDiv(s, i0) == MulDivRest(s, NaNValue, "", i0)

\* the same for the operators + and -
AddSubRest(s, acc, op, i0) ==
  The([r \in {ParseMulDiv(s, i0)} |->
    IF ~r.ok THEN ParseFail
    ELSE The([i \in {SkipWs(s, r.i)} |->
           The([v \in {IF op = "+" THEN NumAdd(acc, r.v)
                       ELSE IF op = "-" THEN NumSub(acc, r.v)
                       ELSE r.v} |->
             IF CharAt(s, i) \in {"+", "-"} THEN AddSubRest(s, v, s[i], i + 1)
             ELSE PR(TRUE, v, i)])])])

ParseAddSub(s, i0) == AddSubRest(s, NaNValue, "", i0)

\* name = expression, or name(param) = expression
ParseStatement(s) ==
  LET i    == SkipWs(s, 1)
      j    == SkipWs(s, IdentEnd(s, i))
      isId == CharAt(s, i) # "" /\ IsAlpha(s[i])
      p    == SkipWs(s, j + 1)
      pc   == SkipWs(s, IdentEnd(s, p))
      eq   == SkipWs(s, pc + 1)
      isAssignment == isId /\ CharAt(s, j) = "=" /\ CharAt(s, j + 1) # "="
  IN  IF /\ ~isAssignment
         /\ isId /\ CharAt(s, j) = "(" /\ IdentEnd(s, p) > p /\ CharAt(s, pc) = ")"
         /\ CharAt(s, eq) = "=" /\ CharAt(s, eq + 1) # "="
      THEN PR(TRUE, Other("function"), Len(s) + 1)
      ELSE ParseAddSub(s, IF isAssignment THEN j + 1 ELSE 1)

\* evaluate(expr) of mathjs: ok = FALSE when it throws (syntax error,
\* undefined symbol or function); an empty text gives undefined, a block of
\* several statements a ResultSet
MathjsEvaluate(s) ==
  IF SkipWs(s, 1) > Len(s) THEN PR(TRUE, Other("undefined"), 1)
  ELSE IF \E i \in 1..Len(s) : s[i] = ";" THEN PR(TRUE, Other("resultset"), Len(s) + 1)
  ELSE LET Whole(r) == IF r.ok /\ SkipWs(s, r.i) > Len(s) THEN r ELSE ParseFail
       IN  Whole(ParseStatement(s))

\* result.toString(): ok = FALSE for the TypeError on undefined
ResultToString(v) ==
  IF v.k = "undefined" THEN [ok |-> FALSE, s |-> <<>>]
  ELSE IF v.k = "complex" THEN [ok |-> TRUE, s |-> <<"i">>]
  ELSE IF v.k = "function" THEN [ok |-> TRUE, s |-> <<"f","u","n","c","t","i","o","n">>]
  ELSE IF v.k = "resultset" THEN [ok |-> TRUE, s |-> <<"[","]">>]
  ELSE [ok |-> TRUE, s |-> ToText(v)]

---------------------------------------------------------------------------
(* JSON values of a request body                                           *)

\* a value: its type and, for strings, numbers and booleans, its text
JVal(t, v) == [t |-> t, v |-> v]

Undefined == JVal("undefined", <<>>)

JStr(s) == JVal("str", s)

JNum(s) == JVal("num", s)

\* ToBoolean
Truthy(j) ==
  CASE j.t = "str"  -> j.v # <<>>
    [] j.t = "num"  -> j.v # <<"0">>
    [] j.t = "bool" -> j.v = <<"t","r","u","e">>
    [] j.t = "obj"  -> TRUE
    [] OTHER        -> FALSE

\* a || b
OrElse(a, b) == IF Truthy(a) THEN a ELSE b

\* value.toString() of a truthy value
ToStringJS(j) == IF j.t = "obj" THEN <<"[","o","b","j","e","c","t"," ","O","b","j","e","c","t","]">> ELSE j.v

---------------------------------------------------------------------------
(* MathEvaluator (src/server.js)                                           *)

\* this.precision
Precision == 50

\* Decimal.set({ precision: this.precision + 10 })
DecimalPrecision == Precision + 10

\* decimal.js arithmetic: the exact result rounded to the configured precision
DecMinus(a, b) == RoundTo(SubExact(a, b), DecimalPrecision)

DecPlus(a, b) == RoundTo(AddExact(a, b), DecimalPrecision)

DecTimes(a, b) == RoundTo(MulExact(a, b), DecimalPrecision)

DecDividedBy(a, b) == DivTo(a, b, DecimalPrecision)

\* the chain of replace calls that cleans Python/mpmath syntax
MpReplacements ==
  << <<<<"m","p",".","p","i">>, <<"p","i">>>>, <<<<"m","p",".","e">>, <<"e">>>>, <<<<"m","p",".","s","q","r","t","(">>, <<"s","q","r","t","(">>>>,
     <<<<"m","p",".","e","x","p","(">>, <<"e","x","p","(">>>>, <<<<"m","p",".","l","n","(">>, <<"l","o","g","(">>>>, <<<<"m","p",".","l","o","g","(">>, <<"l","o","g","(">>>>,
     <<<<"m","p",".","s","i","n","(">>, <<"s","i","n","(">>>>, <<<<"m","p",".","c","o","s","(">>, <<"c","o","s","(">>>>, <<<<"m","p",".","t","a","n","(">>, <<"t","a","n","(">>>>,
     <<<<"m","p",".","s","i","n","h","(">>, <<"s","i","n","h","(">>>>, <<<<"m","p",".","c","o","s","h","(">>, <<"c","o","s","h","(">>>>, <<<<"m","p",".","t","a","n","h","(">>, <<"t","a","n","h","(">>>>,
     <<<<"m","p",".">>, <<>> >> >>

\* the built-in constants in the order of their replace calls, each with
\* CONSTANTS.name.toString()
BuiltinConstants ==
  The([table \in {<< <<<<"p","i">>, CONSTANTS_values.pi>>, <<<<"e">>, CONSTANTS_values.e>>,
                      <<<<"p","h","i">>, CONSTANTS_values.phi>>, <<<<"g","a","m","m","a">>, CONSTANTS_values.gamma>>,
                      <<<<"s","q","r","t","2">>, CONSTANTS_values.sqrt2>>, <<<<"s","q","r","t","3">>, CONSTANTS_values.sqrt3>>,
                      <<<<"l","n","2">>, CONSTANTS_values.ln2>> >>} |->
         SubSeq([i \in 1..Len(table) |-> <<table[i][1], ToText(Num(table[i][2]))>>],
                1, Len(table))])

RECURSIVE ReplaceEach(_, _, _)
ReplaceEach(s, reps, i) ==
  IF i > Len(reps) THEN s
  ELSE ReplaceEach(ReplaceAll(s, reps[i][1], reps[i][2]), reps, i + 1)

RECURSIVE ReplaceEachWord(_, _, _)
ReplaceEachWord(s, reps, i) ==
  IF i > Len(reps) THEN s
  ELSE ReplaceEachWord(ReplaceWord(s, reps[i][1], reps[i][2]), reps, i + 1)

CleanMpSyntax(expression) == ReplaceEach(ToLowerCase(expression), MpReplacements, 1)

\* the text handed to evaluate(): built-in constants first, then the custom
\* constants in key order
SubstituteConstants(expr, constants) ==
  ReplaceEachWord(ReplaceEachWord(expr, BuiltinConstants, 1), constants, 1)

Thrown == [ok |-> FALSE, v |-> NaNValue, expr |-> <<>>]

\* evaluateExpression(expression, constants): ok = FALSE when it throws;
\* expr is the text it hands to evaluate()
evaluateExpression(expression, constants) ==
  IF expression.t # "str" THEN Thrown
  ELSE The([expr \in {SubstituteConstants(CleanMpSyntax(expression.v), constants)} |->
         The([result \in {MathjsEvaluate(expr)} |->
           The([text \in {ResultToString(result.v)} |->
             The([dec \in {DecimalFromText(text.s)} |->
               IF result.ok /\ text.ok /\ dec.ok
               THEN [ok |-> TRUE, v |-> dec.v, expr |-> expr]
               ELSE [ok |-> FALSE, v |-> NaNValue, expr |-> expr]])])])])

\* the number of whole-word occurrences in s of the names
CountWords(s, names) ==
  Cardinality({i \in 1..Len(s) : \E n \in names : MatchWordAt(s, i, n)})

\* the number of matches of /\d+\.?\d*/g from position i on
RECURSIVE CountNumbers(_, _)
CountNumbers(s, i) ==
  IF \A j \in i..Len(s) : s[j] \notin Digit THEN 0
  ELSE LET Fraction(e1) == IF CharAt(s, e1) = "." THEN DigitsEnd(s, e1 + 1) ELSE e1
           Match(b) == 1 + CountNumbers(s, Fraction(DigitsEnd(s, b)))
       IN  Match(CHOOSE j \in i..Len(s) : s[j] \in Digit /\ \A k \in i..(j-1) : s[k] \notin Digit)

calculateComplexity(expression) ==
  Len(expression)
  \* operators * 2
  + Cardinality({i \in 1..Len(expression) :
                   expression[i] \in {"+", "-", "*", "/", "^", "(", ")"}}) * 2
  \* functions * 3
  + CountWords(expression, {<<"s","q","r","t">>, <<"l","o","g">>, <<"l","n">>, <<"e","x","p">>, <<"s","i","n">>,
                            <<"c","o","s">>, <<"t","a","n">>, <<"a","s","i","n">>, <<"a","c","o","s">>, <<"a","t","a","n">>}) * 3
  \* constants
  + CountWords(expression, {<<"p","i">>, <<"e">>, <<"p","h","i">>, <<"g","a","m","m","a">>, <<"s","q","r","t","2">>,
                            <<"s","q","r","t","3">>, <<"l","n","2">>})
  \* numbers
  + CountNumbers(expression, 1)

IntValue(n) == Normalize(n < 0, NatDigits(IF n < 0 THEN 0 - n ELSE n), 0)

\* x.log() of decimal.js is the base-10 logarithm rounded to the precision in
\* significant digits.  For x = m * 10^e with 1 < m < 10 it lies strictly
\* between e and e + 1; it is rounded to the integer next to it when log10(m)
\* is under half a unit of the last digit kept, that is when m - 1 is under
\* 10^h - 1 = h * ln(10) for h half that unit; halfLn10 is ln(10) / 2 to 20
\* significant digits
LogRoundsToInteger(x) ==
  LET CountDigits(n) == IF n = 0 THEN 0 ELSE Len(NatDigits(n))
      whole  == CountDigits(IF LeadExp(x) >= 0 THEN LeadExp(x) ELSE 0 - LeadExp(x) - 1)
      excess == SubExact(Fin(FALSE, x.d, 1 - Len(x.d)), Fin(FALSE, <<1>>, 0))
      halfLn10 == <<1, 1, 5, 1, 2, 9, 2, 5, 4, 6, 4, 9, 7, 0, 2, 2, 8, 4, 2, 0>>
      limit  == Fin(FALSE, halfLn10, whole - DecimalPrecision - 19)
  IN  whole > 0 /\ Less(excess, limit)

\* absoluteError.log().dividedBy(new Decimal(10).log()).negated().floor() for
\* a finite x > 0; Decimal(10).log() is 1
NegLog10Floor(x) ==
  IF x.d = <<1>> \/ LogRoundsToInteger(x) THEN 0 - LeadExp(x) ELSE 0 - LeadExp(x) - 1

\* calculateAccuracy without negated(): the floor of the logarithm itself
C16_AccuracyNotNegated(absoluteError) ==
  IF absoluteError.k = "nan" THEN NaNValue
  ELSE IntValue(IF IsZero(absoluteError) THEN Precision
                ELSE IF absoluteError.k = "inf" THEN Precision
                ELSE Max(0, Min(Precision, 0 - NegLog10Floor(absoluteError))))

\* Math.max(0, Math.min(this.precision, n)) is NaN for NaN
calculateAccuracy(absoluteError) ==
  IF absoluteError.k = "nan" THEN NaNValue
  ELSE IntValue(IF IsZero(absoluteError) THEN Precision
                ELSE IF absoluteError.k = "inf" THEN 0
                ELSE Max(0, Min(Precision, NegLog10Floor(absoluteError))))

\* calculateOverallScore without the additive floor 1e-50
C19_ScoreWithoutFloor(absoluteError, complexity) ==
  ToNumber(DecTimes(
    DecDividedBy(IntValue(1), absoluteError),
    DecDividedBy(IntValue(1), DecPlus(IntValue(complexity), IntValue(1)))))

calculateOverallScore(absoluteError, complexity) ==
  ToNumber(DecTimes(
    \* errorScore
    DecDividedBy(IntValue(1), DecPlus(absoluteError, Num(<<"1","e","-","5","0">>))),
    \* complexityPenalty
    DecDividedBy(IntValue(1), DecPlus(IntValue(complexity), IntValue(1)))))

NoQuality ==
  [absoluteError |-> <<>>, relativeError |-> <<>>, complexity |-> 0,
   eleganceScore |-> <<>>, accuracy |-> NaNValue, score |-> NaNValue]

\* calculateApproximationQuality(computed, target, expression): ok = FALSE
\* when it throws (new Decimal(target.toString()) rejects the text)
calculateApproximationQuality(computed, target, expression) ==
  The([computedDecimal \in {DecimalFromText(ToText(computed))} |->
    The([targetDecimal \in {DecimalFromText(ToStringJS(target))} |->
      IF ~computedDecimal.ok \/ ~targetDecimal.ok THEN [ok |-> FALSE, q |-> NoQuality]
      ELSE
      The([absoluteError \in {Abs(DecMinus(computedDecimal.v, targetDecimal.v))} |->
        The([relativeError \in {DecDividedBy(absoluteError, Abs(targetDecimal.v))} |->
          The([complexity \in {calculateComplexity(expression)} |->
            The([eleganceScore \in
                   {DecTimes(absoluteError,
                      DecPlus(IntValue(1), DecTimes(Num(<<"0",".","0","1">>), IntValue(complexity))))} |->
              [ok |-> TRUE,
               q  |-> [absoluteError |-> ToText(absoluteError),
                       relativeError |-> ToText(relativeError),
                       complexity    |-> complexity,
                       eleganceScore |-> ToText(eleganceScore),
                       accuracy      |-> calculateAccuracy(absoluteError),
                       score         |-> calculateOverallScore(absoluteError, complexity)]]
            ])])])])])])
---------------------------------------------------------------------------
(* parser.js (src/unnamed/part_000)                                        *)

FieldNames ==
  {"expression", "expr", "formula", "value", "target", "computed", "result",
   "targetName", "target_name", "name", "description", "desc"}

NoFields == [n \in FieldNames |-> Undefined]

\* one element of the approximations array: an object with its fields, or
\* another JSON value (null, number, string), which has none of the fields
Item(t, v, f) == [t |-> t, v |-> v, f |-> f]

ObjectItem(f) == Item("obj", <<>>, f)

NullItem == Item("null", <<>>, NoFields)

NumberItem(s) == Item("num", s, NoFields)

\* approx.name
Get(approx, n) == approx.f[n]

ParseThrew == [threw |-> TRUE, error |-> "TypeError", expression |-> <<>>,
               targetValue |-> <<>>, targetName |-> <<>>, description |-> <<>>]

\* parseApproximation(approx, index): threw = TRUE when a TypeError escapes
\* (Object.keys(null); expression.substring of a value that is no string)
parseApproximation(approx, index) ==
  LET expression  == OrElse(Get(approx, "expression"),
                       OrElse(Get(approx, "expr"), Get(approx, "formula")))
      targetValue == OrElse(Get(approx, "value"),
                       OrElse(Get(approx, "target"),
                         OrElse(Get(approx, "computed"), Get(approx, "result"))))
      targetName  == OrElse(Get(approx, "targetName"),
                       OrElse(Get(approx, "target_name"),
                         OrElse(Get(approx, "name"), JStr(<<"u","n","k","n","o","w","n">>))))
      description == OrElse(Get(approx, "description"),
                       OrElse(Get(approx, "desc"), JStr(<<>>)))
  IN  IF approx.t = "null" THEN ParseThrew
      ELSE IF Truthy(expression) /\ expression.t # "str" THEN ParseThrew
      ELSE IF ~Truthy(expression)
           THEN [ParseThrew EXCEPT !.threw = FALSE, !.error = "Missing expression field"]
      ELSE IF ~Truthy(targetValue)
           THEN [ParseThrew EXCEPT !.threw = FALSE, !.error = "Missing target value field"]
      ELSE [threw |-> FALSE, error |-> "null",
            expression  |-> ToStringJS(expression),
            targetValue |-> ToStringJS(targetValue),
            targetName  |-> ToStringJS(targetName),
            description |-> ToStringJS(description)]

ErrorEntry(index, expression, error) ==
  [index |-> index, expression |-> expression, error |-> error]

\* parseBatch(approximations) for an array: the forEach loop from element i
\* on; threw = TRUE when parseApproximation throws for an element
RECURSIVE ParseFrom(_, _, _, _)
ParseFrom(approximations, i, parsed, errors) ==
  IF i > Len(approximations) THEN [threw |-> FALSE, parsed |-> parsed, errors |-> errors]
  ELSE LET Each(approx, index, result) ==
             IF result.threw THEN [threw |-> TRUE, parsed |-> <<>>, errors |-> <<>>]
             ELSE ParseFrom(approximations, i + 1,
                    IF result.error # "null" THEN parsed
                    ELSE Append(parsed, [index |-> index, expression |-> result.expression,
                                         targetValue |-> result.targetValue,
                                         targetName |-> result.targetName,
                                         description |-> result.description]),
                    IF result.error = "null" THEN errors
                    ELSE Append(errors,
                           ErrorEntry(index,
                             ToStringJS(OrElse(Get(approx, "expression"), JStr(<<"m","i","s","s","i","n","g">>))),
                             result.error)))
       IN  Each(approximations[i], i - 1, parseApproximation(approximations[i], i - 1))

\* the value of the approximations field of a request body
Body(t, v, items) == [t |-> t, v |-> v, items |-> items]

ArrayBody(items) == Body("array", <<>>, items)

\* Array.isArray
IsArray(b) == b.t = "array"

parseBatch(approximations) ==
  IF ~IsArray(approximations)
  THEN [threw |-> FALSE, parsed |-> <<>>,
        errors |-> <<ErrorEntry(-1, <<>>, "Input must be an array")>>]
  ELSE ParseFrom(approximations.items, 1, <<>>, <<>>)

---------------------------------------------------------------------------
(* Array.prototype.sort of V8 for arrays shorter than 32 elements: the     *)
(* leading run is found (and reversed when strictly descending), the rest  *)
(* is placed by binary insertion.  A comparator result of NaN counts as 0. *)

\* the comparator with its operands exchanged: a.quality.score - b.quality.score
C21_CompareAscending(a, b) ==
  LET Order(v) == IF v.k = "nan" \/ IsZero(v) THEN 0 ELSE IF v.neg THEN -1 ELSE 1
  IN  Order(NumSub(a.quality.score, b.quality.score))

\* (a, b) => b.quality.score - a.quality.score
CompareFn(a, b) ==
  LET Order(v) == IF v.k = "nan" \/ IsZero(v) THEN 0 ELSE IF v.neg THEN -1 ELSE 1
  IN  Order(NumSub(b.quality.score, a.quality.score))

\* the array with its leading run made ascending, and the length of the run
CountAndMakeRun(arr) ==
  LET Made(n, desc, run) ==
        [arr |-> IF desc[2] THEN [i \in 1..run |-> arr[run + 1 - i]] \o SubSeq(arr, run + 1, n)
                            ELSE arr,
         run |-> run]
      \* desc[i]: arr[i] comes strictly before arr[i-1]
      Run(n, desc) ==
        Made(n, desc, CHOOSE r \in 2..n :
                        /\ \A i \in 3..r : desc[i] = desc[2]
                        /\ r = n \/ desc[r + 1] # desc[2])
  IN  IF Len(arr) < 2 THEN [arr |-> arr, run |-> Len(arr)]
      ELSE Run(Len(arr), [i \in 2..Len(arr) |-> CompareFn(arr[i], arr[i-1]) < 0])

\* the position (0-based count of elements before it) where pivot belongs
\* in arr[1..right]
RECURSIVE InsertionPoint(_, _, _, _)
InsertionPoint(arr, pivot, left, right) ==
  IF left >= right THEN left
  ELSE LET mid == left + ((right - left) \div 2)
       IN  IF CompareFn(pivot, arr[mid + 1]) < 0
           THEN InsertionPoint(arr, pivot, left, mid)
           ELSE InsertionPoint(arr, pivot, mid + 1, right)

RECURSIVE BinaryInsertionSort(_, _)
BinaryInsertionSort(arr, start) ==
  IF start > Len(arr) THEN arr
  ELSE LET Moved(pivot, left) ==
             SubSeq(arr, 1, left) \o <<pivot>> \o SubSeq(arr, left + 1, start - 1)
               \o SubSeq(arr, start + 1, Len(arr))
       IN  BinaryInsertionSort(Moved(arr[start], InsertionPoint(arr, arr[start], 0, start - 1)),
                               start + 1)

\* results.sort((a, b) => b.quality.score - a.quality.score)
SortResults(results) ==
  IF Len(results) < 2 THEN results
  ELSE The([r \in {CountAndMakeRun(results)} |-> BinaryInsertionSort(r.arr, r.run + 1)])

---------------------------------------------------------------------------
(* The HTTP handlers of src/server.js                                      *)

NoSummary == [total |-> 0, successful |-> 0, failed |-> 0, bestScore |-> NaNValue]

\* a response: the HTTP status, the success field ("none" when the body has
\* no such field), the error text, and the payload of a successful response;
\* for a direct call of evaluateExpression, value is the text of the value
\* returned and expr the text handed to evaluate()
Response(status, success, error, results, errors, summary) ==
  [status |-> status, success |-> success, error |-> error,
   results |-> results, errors |-> errors, summary |-> summary,
   value |-> <<>>, expr |-> <<>>]

ErrorResponse(status, success, error) ==
  Response(status, success, error, <<>>, <<>>, NoSummary)

\* the body of the try block for one parsed item: ok = FALSE when
\* evaluateExpression or calculateApproximationQuality throws
EvaluateItem(expression, targetValue) ==
  The([computed \in {evaluateExpression(JStr(expression), <<>>)} |->
    IF ~computed.ok
    THEN [ok |-> FALSE, error |-> "Expression evaluation failed",
          computed |-> <<>>, quality |-> NoQuality]
    ELSE The([quality \in {calculateApproximationQuality(computed.v, JStr(targetValue),
                                                         expression)} |->
           IF ~quality.ok
           THEN [ok |-> FALSE, error |-> "Quality calculation failed",
                 computed |-> <<>>, quality |-> NoQuality]
           ELSE [ok |-> TRUE, error |-> "null",
                 computed |-> ToText(computed.v), quality |-> quality.q]])])

\* parsed.forEach(...) from element i on; table holds EvaluateItem for the
\* inputs of the items (the evaluator keeps no state between calls)
RECURSIVE EvaluateFrom(_, _, _, _, _)
\* a forEach loop in which every item gets the outcome of the first item of
\* the batch, as if the evaluator kept what it computed first
C11_EvaluateFromKeepsFirst(parsed, i, results, errors, table) ==
  IF i > Len(parsed) THEN [results |-> results, errors |-> errors]
  ELSE LET Each(item, out) ==
             EvaluateFrom(parsed, i + 1,
               IF ~out.ok THEN results
               ELSE Append(results,
                      [index |-> item.index, expression |-> item.expression,
                       target |-> item.targetValue, targetName |-> item.targetName,
                       description |-> item.description, computed |-> out.computed,
                       quality |-> out.quality]),
               IF out.ok THEN errors
               ELSE Append(errors, ErrorEntry(item.index, item.expression, out.error)),
               table)
       IN  Each(parsed[i], table[<<parsed[1].expression, parsed[1].targetValue>>])

EvaluateFrom(parsed, i, results, errors, table) ==
  IF i > Len(parsed) THEN [results |-> results, errors |-> errors]
  ELSE LET Each(item, out) ==
             EvaluateFrom(parsed, i + 1,
               IF ~out.ok THEN results
               ELSE Append(results,
                      [index |-> item.index, expression |-> item.expression,
                       target |-> item.targetValue, targetName |-> item.targetName,
                       description |-> item.description, computed |-> out.computed,
                       quality |-> out.quality]),
               IF out.ok THEN errors
               ELSE Append(errors,
                      ErrorEntry(item.index,
                        IF item.expression # <<>> THEN item.expression ELSE <<"u","n","k","n","o","w","n">>,
                        out.error)),
               table)
       IN  Each(parsed[i], table[<<parsed[i].expression, parsed[i].targetValue>>])

\* app.post('/api/evaluate-batch'); table holds EvaluateItem for the inputs
\* of the items
EvaluateBatchResponse(approximations, table) ==
  IF ~IsArray(approximations) /\ ~Truthy(JVal(approximations.t, approximations.v))
  THEN ErrorResponse(400, "none", "Invalid request: approximations array required")
  ELSE IF ~IsArray(approximations)
  THEN ErrorResponse(400, "none", "approximations must be an array")
  ELSE The([p \in {parseBatch(approximations)} |->
         IF p.threw THEN ErrorResponse(500, "false", "TypeError")
         ELSE The([e \in {EvaluateFrom(p.parsed, 1, <<>>, p.errors, table)} |->
                The([results \in {SortResults(e.results)} |->
                  Response(200, "true", "null", results, e.errors,
                    [total      |-> Len(approximations.items),
                     successful |-> Len(results),
                     failed     |-> Len(e.errors),
                     bestScore  |-> IF Len(results) > 0 THEN results[1].quality.score
                                    ELSE IntValue(0)])])])])

\* approximations.forEach(...) of the original driver from element i on:
\* only the fields expression and target are read; threw = TRUE when the
\* TypeError of an element null escapes the catch block, which reads
\* approx.expression again
RECURSIVE OriginalEvaluateFrom(_, _, _, _, _)
OriginalEvaluateFrom(approximations, i, results, errors, table) ==
  IF i > Len(approximations)
  THEN [threw |-> FALSE, results |-> results, errors |-> errors]
  ELSE LET Each(approx, expression, target, out) ==
             IF approx.t = "null" THEN [threw |-> TRUE, results |-> <<>>, errors |-> <<>>]
             ELSE IF ~Truthy(expression) \/ ~Truthy(target)
             THEN OriginalEvaluateFrom(approximations, i + 1, results,
                    Append(errors, ErrorEntry(i - 1, <<>>,
                                     "Missing required fields: expression and target")),
                    table)
             ELSE OriginalEvaluateFrom(approximations, i + 1,
                    IF ~out.ok THEN results
                    ELSE Append(results,
                           [index |-> i - 1, expression |-> expression.v,
                            target |-> ToStringJS(target),
                            targetName |-> ToStringJS(OrElse(Get(approx, "targetName"),
                                                             JStr(<<"u","n","k","n","o","w","n">>))),
                            description |-> ToStringJS(OrElse(Get(approx, "description"),
                                                              JStr(<<>>))),
                            computed |-> out.computed, quality |-> out.quality]),
                    IF out.ok THEN errors
                    ELSE Append(errors, ErrorEntry(i - 1, ToStringJS(expression), out.error)),
                    table)
       IN  Each(approximations[i], Get(approximations[i], "expression"),
                Get(approximations[i], "target"),
                IF Get(approximations[i], "expression").t # "str"
                THEN [ok |-> FALSE, error |-> "Expression evaluation failed",
                      computed |-> <<>>, quality |-> NoQuality]
                ELSE IF <<Get(approximations[i], "expression").v,
                          ToStringJS(Get(approximations[i], "target"))>> \in DOMAIN table
                THEN table[<<Get(approximations[i], "expression").v,
                             ToStringJS(Get(approximations[i], "target"))>>]
                ELSE EvaluateItem(Get(approximations[i], "expression").v,
                                  ToStringJS(Get(approximations[i], "target"))))

\* the original driver without its sort
C29_OriginalUnsorted(approximations, table) ==
  IF ~IsArray(approximations)
  THEN ErrorResponse(400, "none", "approximations must be an array")
  ELSE The([e \in {OriginalEvaluateFrom(approximations.items, 1, <<>>, <<>>, table)} |->
         IF e.threw THEN ErrorResponse(500, "false", "TypeError")
         ELSE Response(200, "true", "null", e.results, e.errors,
                [total      |-> Len(approximations.items),
                 successful |-> Len(e.results),
                 failed     |-> Len(e.errors),
                 bestScore  |-> IF Len(e.results) > 0 THEN e.results[1].quality.score
                                ELSE IntValue(0)])])

\* app.post('/api/evaluate-batch') of the original driver
\* (src/unnamed/part_006); table as for EvaluateBatchResponse
OriginalBatchResponse(approximations, table) ==
  IF ~IsArray(approximations)
  THEN ErrorResponse(400, "none", "approximations must be an array")
  ELSE The([e \in {OriginalEvaluateFrom(approximations.items, 1, <<>>, <<>>, table)} |->
         IF e.threw THEN ErrorResponse(500, "false", "TypeError")
         ELSE The([results \in {SortResults(e.results)} |->
                Response(200, "true", "null", results, e.errors,
                  [total      |-> Len(approximations.items),
                   successful |-> Len(results),
                   failed     |-> Len(e.errors),
                   bestScore  |-> IF Len(results) > 0 THEN results[1].quality.score
                                  ELSE IntValue(0)])])])

\* the handler of /api/evaluate without its catch for the scoring: a failure
\* of calculateApproximationQuality is answered as a success without metrics
C25_EvaluateSwallowsFailure(expression, target, targetName) ==
  IF ~Truthy(expression) \/ ~Truthy(target)
  THEN ErrorResponse(400, "none", "Missing required fields: expression and target")
  ELSE The([computed \in {evaluateExpression(expression, <<>>)} |->
         IF ~computed.ok THEN ErrorResponse(500, "false", "Expression evaluation failed")
         ELSE The([quality \in {calculateApproximationQuality(computed.v, target,
                                                              expression.v)} |->
                Response(200, "true", "null",
                  << [index |-> 0, expression |-> expression.v,
                      target |-> ToStringJS(target),
                      targetName |-> ToStringJS(OrElse(targetName, JStr(<<"u","n","k","n","o","w","n">>))),
                      description |-> <<>>, computed |-> ToText(computed.v),
                      quality |-> quality.q] >>,
                  <<>>, NoSummary)])])

\* app.post('/api/evaluate')
EvaluateResponse(expression, target, targetName) ==
  IF ~Truthy(expression) \/ ~Truthy(target)
  THEN ErrorResponse(400, "none", "Missing required fields: expression and target")
  ELSE The([computed \in {evaluateExpression(expression, <<>>)} |->
         IF ~computed.ok THEN ErrorResponse(500, "false", "Expression evaluation failed")
         ELSE The([quality \in {calculateApproximationQuality(computed.v, target,
                                                              expression.v)} |->
                IF ~quality.ok THEN ErrorResponse(500, "false", "Quality calculation failed")
                ELSE Response(200, "true", "null",
                       << [index |-> 0, expression |-> expression.v,
                           target |-> ToStringJS(target),
                           targetName |-> ToStringJS(OrElse(targetName, JStr(<<"u","n","k","n","o","w","n">>))),
                           description |-> <<>>, computed |-> ToText(computed.v),
                           quality |-> quality.q] >>,
                       <<>>, NoSummary)])])

---------------------------------------------------------------------------
(* The client: App of src/unnamed/part_005 with the buttons that call its  *)
(* handlers.  The servers are seen from outside: a request in flight is    *)
(* settled by one of the responses the endpoint can give, or by a network  *)
(* error.  A result is the expression it ranks and whether it carries an   *)
(* aiEvaluation.                                                           *)

\* the state of App: results, loading, error and aiEvaluating, and the
\* requests sent by fetch that have not settled
App(results, loading, error, aiEvaluating, inFlight) ==
  [results |-> results, loading |-> loading, error |-> error,
   aiEvaluating |-> aiEvaluating, inFlight |-> inFlight]

UiInit ==
  /\ client = App(<<>>, FALSE, "null", FALSE, {})
  /\ request = [op |-> "none"]
  /\ response = ErrorResponse(0, "none", "null")
  /\ handler = [pc |-> "idle"]

\* handleEvaluate(approximations), called by the Evaluate button of
\* InputPanel, which is disabled while loading
HandleEvaluate ==
  /\ ~client.loading
  /\ \E approximations \in
        { << [expression |-> "355/113", target |-> "3.141592653589793"],
             [expression |-> "22/7", target |-> "3.141592653589793"] >>,
          << [expression |-> "(1 + sqrt(5))/2", target |-> "1.618033988749895"] >> } :
       client' = [client EXCEPT
                    !.loading = TRUE,
                    !.error = "null",
                    !.inFlight = @ \cup {[url |-> "/api/evaluate-batch",
                                          body |-> approximations]}]
  /\ UNCHANGED <<request, response, handler>>

C28_SettlesWithoutFinally ==
  /\ \E sent \in client.inFlight, outcome \in {"results", "none", "error", "network"} :
       /\ sent.url = "/api/evaluate-batch"
       /\ client' = [client EXCEPT
            !.results = CASE outcome = "results" ->
                               [k \in 1..Len(sent.body) |->
                                  [expression |-> sent.body[k].expression, aiEvaluation |-> FALSE]]
                          [] outcome = "none" -> <<>>
                          [] OTHER -> @,
            !.error = CASE outcome = "error" -> "Evaluation failed"
                        [] outcome = "network" -> "Network error: Could not connect to server"
                        [] OTHER -> @,
            !.loading = IF outcome = "network" THEN @ ELSE FALSE,
            !.inFlight = @ \ {sent}]
  /\ UNCHANGED <<request, response, handler>>

\* the request of handleEvaluate settles: data.success with the ranked
\* results (all items, or none when every item failed), data.success false,
\* or a network error; finally loading is cleared
EvaluateSettles ==
  /\ \E sent \in client.inFlight, outcome \in {"results", "none", "error", "network"} :
       /\ sent.url = "/api/evaluate-batch"
       /\ client' = [client EXCEPT
            !.results = CASE outcome = "results" ->
                               [k \in 1..Len(sent.body) |->
                                  [expression |-> sent.body[k].expression, aiEvaluation |-> FALSE]]
                          [] outcome = "none" -> <<>>
                          [] OTHER -> @,
            !.error = CASE outcome = "error" -> "Evaluation failed"
                        [] outcome = "network" -> "Network error: Could not connect to server"
                        [] OTHER -> @,
            !.loading = FALSE,
            !.inFlight = @ \ {sent}]
  /\ UNCHANGED <<request, response, handler>>

\* handleAiEvaluate(): without results it sets the error and returns; the
\* button that calls it is rendered with results only and is disabled while
\* aiEvaluating
HandleAiEvaluate ==
  /\ IF client.results = <<>>
     THEN client' = [client EXCEPT
                       !.error = "No results to evaluate. Please run mathematical evaluation first."]
     ELSE /\ ~client.aiEvaluating
          /\ client' = [client EXCEPT
                          !.aiEvaluating = TRUE,
                          !.error = "null",
                          !.inFlight = @ \cup {[url |-> "/api/ai-evaluate",
                                                body |-> client.results]}]
  /\ UNCHANGED <<request, response, handler>>

\* the request of handleAiEvaluate settles: data.success with the results
\* sent, annotated; data.success false; or a network error; finally
\* aiEvaluating is cleared
AiEvaluateSettles ==
  /\ \E sent \in client.inFlight, outcome \in {"results", "error", "network"} :
       /\ sent.url = "/api/ai-evaluate"
       /\ client' = [client EXCEPT
            !.results = IF outcome = "results"
                        THEN [k \in 1..Len(sent.body) |->
                                [sent.body[k] EXCEPT !.aiEvaluation = TRUE]]
                        ELSE @,
            !.error = CASE outcome = "error" -> "AI evaluation failed"
                        [] outcome = "network" ->
                             "Network error: Could not connect to AI evaluation service"
                        [] OTHER -> @,
            !.aiEvaluating = FALSE,
            !.inFlight = @ \ {sent}]
  /\ UNCHANGED <<request, response, handler>>

UiNext == HandleEvaluate \/ EvaluateSettles \/ HandleAiEvaluate \/ AiEvaluateSettles

\* every request sent by fetch settles
UiSpec == UiInit /\ [][UiNext]_vars /\ WF_vars(EvaluateSettles) /\ WF_vars(AiEvaluateSettles)
---------------------------------------------------------------------------
(* The AI annotation of src/server.js: AIEvaluator and POST /api/ai-evaluate. *)
(* A reply of the language-model service is one of the outcomes of fetch:   *)
(*   "network"  fetch rejects                                               *)
(*   "http"     response.ok is false                                        *)
(*   "empty"    data.choices[0]?.message?.content is missing or empty       *)
(*   "text"     the content is not JSON                                     *)
(*   "scalar"   the content is JSON, but no object (such as 42)             *)
(*   "partial"  the content is a JSON object with the accuracy field only   *)
(*   "valid"    the content is the JSON object asked for                    *)

MaxResults == 3

DelayMs == 1000

\* an evaluation object with the six fields, five of them set by the code
Evaluation(accuracy, others) ==
  [t |-> "obj",
   f |-> [accuracy |-> accuracy, efficiency |-> others, novelty |-> others,
          stability |-> others, generality |-> others,
          recommendation |-> "Needs improvement"]]

\* aiEvaluator.evaluateApproximation(approximation, model) where the service
\* answers with reply; key is the truthiness of OPENROUTER_API_KEY.  threw is
\* TRUE when the TypeError of approximation.expression escapes, fetched is
\* TRUE when the request to the service has been made
evaluateApproximation(approximation, key, reply) ==
  IF ~key
  THEN [threw |-> FALSE, fetched |-> FALSE,
        value |-> Evaluation("Unable to analyze - OpenRouter API key not configured",
                             "Unable to analyze - OpenRouter API key not configured")]
  ELSE IF approximation.t = "null"
  THEN [threw |-> TRUE, fetched |-> FALSE,
        value |-> "Cannot read properties of null (reading 'expression')"]
  ELSE [threw |-> FALSE, fetched |-> TRUE,
        value |->
          CASE reply = "network" ->
                 Evaluation("Error during evaluation: fetch failed",
                            "Unable to analyze due to API error")
            [] reply = "http" ->
                 Evaluation("Error during evaluation: OpenRouter API error: 500 - Unknown error",
                            "Unable to analyze due to API error")
            [] reply = "empty" ->
                 Evaluation("Error during evaluation: No content received from OpenRouter API",
                            "Unable to analyze due to API error")
            [] reply = "text" ->
                 Evaluation("AI response parsing failed - unable to analyze",
                            "AI response parsing failed - unable to analyze")
            [] reply = "scalar" -> [t |-> "num", f |-> <<>>]
            [] reply = "partial" -> [t |-> "obj", f |-> [accuracy |-> "High"]]
            [] OTHER ->
                 [t |-> "obj",
                  f |-> [accuracy |-> "High", efficiency |-> "High", novelty |-> "No",
                         stability |-> "Stable", generality |-> "Restricted",
                         recommendation |-> "Use"]]]

C22_AnnotateWithoutSpread(result, aiEvaluation, i, error) ==
  ObjectItem([n \in {"aiEvaluation", "evaluationIndex"} |->
               IF n = "aiEvaluation" THEN aiEvaluation ELSE i])

\* {...result, aiEvaluation, evaluationIndex: i} and, when error is not "",
\* evaluationError: error; the spread of null has no fields
Annotate(result, aiEvaluation, i, error) ==
  LET own == IF result.t = "obj" THEN DOMAIN result.f ELSE {}
      added == {"aiEvaluation", "evaluationIndex"} \cup
               (IF error = "" THEN {} ELSE {"evaluationError"})
  IN ObjectItem([n \in own \cup added |->
                  CASE n = "aiEvaluation" -> aiEvaluation
                    [] n = "evaluationIndex" -> i
                    [] n = "evaluationError" /\ error # "" -> error
                    [] OTHER -> result.f[n]])

\* the handler between two steps: pc is its position, i the loop index,
\* evaluatedResults the array built so far, fetching the indices of the items
\* whose request to the service is in flight, and elapsed the milliseconds
\* since the last of these requests completed (counted up to the delay)
Handler(pc, i, evaluatedResults, fetching, elapsed) ==
  [pc |-> pc, i |-> i, evaluatedResults |-> evaluatedResults,
   fetching |-> fetching, elapsed |-> elapsed]

\* a request POST /api/ai-evaluate has arrived, with or without an API key in
\* the environment.  The elements of req.body.results are two items of a
\* batch response, an item that an earlier AI evaluation has annotated, and
\* null
AiInit ==
  /\ LET elements ==
           { ObjectItem([index |-> 0, expression |-> "355/113",
                         target |-> "3.141592653589793", computed |-> "3.1415929203539825",
                         quality |-> [score |-> "6.1", accuracy |-> "6"]]),
             ObjectItem([index |-> 1, expression |-> "22/7",
                         target |-> "3.141592653589793", computed |-> "3.142857142857143",
                         quality |-> [score |-> "1.8", accuracy |-> "2"]]),
             Annotate(ObjectItem([index |-> 1, expression |-> "22/7"]),
                      Evaluation("Evaluation failed: timeout", "Unable to analyze"),
                      0, "timeout"),
             NullItem }
     IN  \E body \in {Body("undefined", <<>>, <<>>), Body("obj", <<>>, <<>>)} \cup
                      {ArrayBody(items) :
                         items \in UNION {[1..n -> elements] : n \in 0..MaxResults}},
            key \in BOOLEAN :
           request = [op |-> "ai-evaluate", results |-> body, key |-> key]
  /\ response = ErrorResponse(0, "none", "null")
  /\ handler = Handler("start", 0, <<>>, {}, 0)
  /\ client = App(<<>>, FALSE, "null", FALSE, {})

\* the checks before the loop: 400 without a results array, 500 without a key
AiEvaluate ==
  /\ handler.pc = "start"
  /\ IF ~IsArray(request.results)
     THEN /\ response' = ErrorResponse(400, "none", "Invalid request: results array is required")
          /\ handler' = [handler EXCEPT !.pc = "done"]
     ELSE IF ~request.key
     THEN /\ response' = ErrorResponse(500, "none", "OpenRouter API key not configured. Please set OPENROUTER_API_KEY in environment variables.")
          /\ handler' = [handler EXCEPT !.pc = "done"]
     ELSE /\ handler' = [handler EXCEPT !.pc = "loop"]
          /\ UNCHANGED response
  /\ UNCHANGED <<request, client>>

\* the loop reaches item i: evaluateApproximation throws before the request
\* is made (catch: the item is pushed with evaluationError, no delay), or the
\* request to the service is made
AiFetch ==
  /\ handler.pc = "loop"
  /\ handler.i < Len(request.results.items)
  /\ \E r \in {evaluateApproximation(request.results.items[handler.i + 1], request.key, "valid")} :
       handler' =
         IF r.threw
         THEN [handler EXCEPT
                 !.evaluatedResults =
                    Append(@, Annotate(request.results.items[handler.i + 1],
                                       Evaluation("Evaluation failed: " \o r.value, "Unable to analyze"),
                                       handler.i, r.value)),
                 !.i = @ + 1]
         ELSE [handler EXCEPT !.pc = "fetch", !.fetching = @ \cup {handler.i}]
  /\ UNCHANGED <<request, response, client>>

\* the request of item i settles with some reply: the annotated item is
\* pushed; a delay follows unless the item is the last one
AiFetchSettles ==
  /\ handler.pc = "fetch"
  /\ \E reply \in {"network", "http", "empty", "text", "scalar", "partial", "valid"} :
       handler' =
         [handler EXCEPT
            !.evaluatedResults =
               Append(@, Annotate(request.results.items[handler.i + 1],
                                  evaluateApproximation(request.results.items[handler.i + 1],
                                                        request.key, reply).value,
                                  handler.i, "")),
            !.fetching = @ \ {handler.i},
            !.elapsed = 0,
            !.pc = IF handler.i < Len(request.results.items) - 1 THEN "delay" ELSE "loop",
            !.i = IF handler.i < Len(request.results.items) - 1 THEN @ ELSE @ + 1]
  /\ UNCHANGED <<request, response, client>>

\* half a second passes while the timer of the delay runs
Tick ==
  /\ handler.pc = "delay"
  /\ handler.elapsed < DelayMs
  /\ handler' = [handler EXCEPT !.elapsed = @ + 500]
  /\ UNCHANGED <<request, response, client>>

C24_TimerWithoutDelay ==
  /\ handler.pc = "delay"
  /\ handler' = [handler EXCEPT !.pc = "loop", !.i = @ + 1]
  /\ UNCHANGED <<request, response, client>>

\* setTimeout(resolve, 1000) fires: the loop goes on with the next item
AiTimer ==
  /\ handler.pc = "delay"
  /\ handler.elapsed >= DelayMs
  /\ handler' = [handler EXCEPT !.pc = "loop", !.i = @ + 1]
  /\ UNCHANGED <<request, response, client>>

\* after the loop: res.json({success: true, results: evaluatedResults, ...})
AiRespond ==
  /\ handler.pc = "loop"
  /\ handler.i >= Len(request.results.items)
  /\ response' = Response(200, "true", "null", handler.evaluatedResults, <<>>, NoSummary)
  /\ handler' = [handler EXCEPT !.pc = "done"]
  /\ UNCHANGED <<request, client>>

AiNext == AiEvaluate \/ AiFetch \/ AiFetchSettles \/ Tick \/ AiTimer \/ AiRespond

\* the event loop runs every callback that is ready, time passes, and every
\* request to the service settles
AiSpec == AiInit /\ [][AiNext]_vars /\ WF_vars(AiNext)
---------------------------------------------------------------------------
(* The requests of the model                                               *)

\* longest approximations array
MaxBatch == 3

PiTarget == <<"3",".","1","4","1","5","9","2","6","5","3","5","8","9","7","9","3">>

Approx(expression, target) ==
  ObjectItem([NoFields EXCEPT !["expression"] = expression, !["target"] = target])

\* the elements an approximations array is built from
Items ==
  { Approx(JStr(<<"2","2","/","7">>), JStr(PiTarget)),
    Approx(JStr(<<"3","5","5","/","1","1","3">>), JStr(PiTarget)),
    Approx(JStr(<<"2","+">>), JStr(<<"1">>)),
    Approx(JStr(<<"1">>), JStr(<<"0">>)),
    Approx(JStr(<<"1","/","0">>), JStr(<<"1">>)),
    Approx(JStr(<<"0","/","0">>), JStr(<<"1">>)),
    Approx(JStr(<<"1">>), JStr(<<"a","b","c">>)),
    Approx(JStr(<<"1">>), JStr(<<>>)),
    ObjectItem([NoFields EXCEPT !["expr"] = JStr(<<"1">>), !["value"] = JNum(<<"1">>)]),
    NullItem,
    NumberItem(<<"7">>),
    Approx(JStr(<<"a","l","p","h","a","b","e","t">>), JStr(<<"1">>)),
    ObjectItem([NoFields EXCEPT !["expr"] = JStr(<<"2","2","/","7">>), !["target"] = JNum(<<"0">>)]) }

\* the (expression, targetValue) pairs parseApproximation yields for Items
ItemInputs ==
  { <<p.expression, p.targetValue>> :
      p \in { parseApproximation(it, 0) :
                it \in { x \in Items : ~parseApproximation(x, 0).threw
                                         /\ parseApproximation(x, 0).error = "null" } } }

ItemTable == [p \in ItemInputs |-> EvaluateItem(p[1], p[2])]

BatchBodies ==
  { Body("undefined", <<>>, <<>>), Body("str", <<"2","2","/","7">>, <<>>), Body("obj", <<>>, <<>>),
    Body("num", <<"7">>, <<>>) }
  \cup { ArrayBody(s) : s \in UNION { [1..n -> Items] : n \in 0..MaxBatch } }

\* the thirteen function names of the specification
SupportedFunctions ==
  { <<"s","q","r","t">>, <<"l","o","g">>, <<"l","n">>, <<"e","x","p">>, <<"s","i","n">>, <<"c","o","s">>, <<"t","a","n">>, <<"a","s","i","n">>, <<"a","c","o","s">>,
    <<"a","t","a","n">>, <<"s","i","n","h">>, <<"c","o","s","h">>, <<"t","a","n","h">> }

FnCall(f, x) == f \o <<"(">> \o x \o <<")">>

\* the expressions evaluateExpression is called with
Expressions ==
  { <<"p","i">>, <<"P","I">>, <<"m","p",".","p","i">>, <<"2","*","p","i">>, <<"p","i","/","2">>, <<"e">>, <<"p","h","i">>, <<"g","a","m","m","a">>, <<"s","q","r","t","2">>,
    <<"s","q","r","t","3">>, <<"l","n","2">>, <<"a","l","p","h","a","b","e","t">>, <<"p","i","n","t">>, <<"p","i","+","p","i","n","t">>, <<"e","x","p","(","e",")">>,
    <<"m","p",".","l","n","(","1",")">>, <<"m","p",".","l","o","g","(","1",")">>, <<"m","p",".","e","x","p","(","1",")">>, <<"m","p",".","s","q","r","t","(","2",")">>,
    <<"l","o","g","(","-","1",")">>, <<"l","o","g","(","0",")">>, <<"a","s","i","n","(","2",")">>, <<"a","c","o","s","(","2",")">>, <<"s","q","r","t","(","-","1",")">>,
    <<"1","/","0">>, <<"-","1","/","0">>, <<"0","/","0">>, <<"1","/","(","1","-","1",")">>,
    <<"a","b","s","(","1",")">>, <<"t","a","u">>, <<"f","o","o","(","1",")">>, <<"x","=","3">>, <<"f","(","x",")","=","x","^","2">>, <<"1",";","2">>, <<>>, <<"2","+">>,
    <<"2","2","/","7">>, <<"3","5","5","/","1","1","3">>, <<"2","^","1","0">>, <<"-","2","^","2">>, <<"(","1","+","2",")","*","3">>, <<"1","e","3">>,
    <<"a">>, <<"a","+","b">>, <<"k","*","p","i">> }
  \cup { FnCall(f, x) : f \in SupportedFunctions, x \in {<<"0">>, <<"1">>} }

\* the custom constants maps evaluateExpression is called with, as the
\* sequence of their (key, value) entries
ConstantMaps ==
  { <<>>,
    << <<<<"p","i">>, <<"3">>>> >>,
    << <<<<"a">>, <<"b">>>>, <<<<"b">>, <<"2">>>> >>,
    << <<<<"k">>, <<"2">>>>, <<<<"e">>, <<"1">>>> >> }

SingleExpressions ==
  { Undefined, JStr(<<"2","2","/","7">>), JStr(<<"1","/","0">>), JStr(<<"2","+">>), JNum(<<"5">>),
    JStr(<<"1">>), JStr(<<"0","/","0">>), JStr(<<"s","i","n","h","(","1",")">>), JStr(<<"1",".","5","+","2","*","p","i">>),
    JStr(<<"p","i","/","2">>), JStr(<<"P","I","/","2">>), JStr(<<"S","Q","R","T","(","2",")">>) }

\* the last target has 61 decimals: 0.99 - 10^-61
SingleTargets ==
  { Undefined, JStr(PiTarget), JStr(<<"0">>), JNum(<<"3">>), JStr(<<"a","b","c">>), JStr(<<"1">>),
    JStr(<<"0",".","9","8","9","9","9","9","9","9","9","9","9","9","9","9","9","9","9","9","9","9","9","9","9","9","9","9","9","9","9","9","9","9","9","9","9","9","9","9","9","9","9","9","9","9","9","9","9","9","9","9","9","9","9","9","9","9","9","9","9","9","9">>) }

---------------------------------------------------------------------------
(* The state machine: one action per request                               *)

Request(op, approximations, expression, target, constants) ==
  [op |-> op, approximations |-> approximations, expression |-> expression,
   target |-> target, constants |-> constants]

NoBody == Body("undefined", <<>>, <<>>)

Init ==
  /\ request = Request("none", NoBody, Undefined, Undefined, <<>>)
  /\ response = ErrorResponse(0, "none", "null")
  /\ handler = Handler("idle", 0, <<>>, {}, 0)
  /\ client = App(<<>>, FALSE, "null", FALSE, {})

Idle == request.op = "none"

\* POST /api/evaluate-batch
EvaluateBatch ==
  \E body \in BatchBodies :
    /\ Idle
    /\ request' = Request("evaluate-batch", body, Undefined, Undefined, <<>>)
    /\ response' = EvaluateBatchResponse(body, ItemTable)
    /\ UNCHANGED <<handler, client>>

\* POST /api/evaluate
Evaluate ==
  \E expression \in SingleExpressions, target \in SingleTargets :
    /\ Idle
    /\ request' = Request("evaluate", NoBody, expression, target, <<>>)
    /\ response' = EvaluateResponse(expression, target, Undefined)
    /\ UNCHANGED <<handler, client>>

\* a call evaluator.evaluateExpression(expression, constants)
CallEvaluateExpression ==
  \E expression \in Expressions, constants \in ConstantMaps :
    \E r \in {evaluateExpression(JStr(expression), constants)} :
      /\ Idle
      /\ request' = Request("evaluateExpression", NoBody, JStr(expression), Undefined, constants)
      /\ response' = [ErrorResponse(0, IF r.ok THEN "true" ELSE "false", "null")
                        EXCEPT !.value = IF r.ok THEN ToText(r.v) ELSE <<>>,
                               !.expr = r.expr]
      /\ UNCHANGED <<handler, client>>

\* the response has been sent (the call has returned): nothing is kept
Complete ==
  /\ ~Idle
  /\ request' = Request("none", NoBody, Undefined, Undefined, <<>>)
  /\ response' = ErrorResponse(0, "none", "null")
  /\ UNCHANGED <<handler, client>>

Next == EvaluateBatch \/ Evaluate \/ CallEvaluateExpression \/ Complete

Spec == Init /\ [][Next]_vars

---------------------------------------------------------------------------
(* Calls of the scoring methods: a second state machine, in which a method *)
(* is called twice so that the two results can be compared                 *)

\* the values of absoluteError calculateAccuracy is called with
AbsoluteErrors ==
  { <<"0">>, <<"1","e","-","5","1">>, <<"1","e","-","5","0">>, <<"9","e","-","5","0">>, <<"1","e","-","4","9">>, <<"1",".","5","e","-","2","0">>, <<"1","e","-","1","0">>,
    <<"0",".","0","0","0","9">>, <<"0",".","0","0","1">>, <<"0",".","0","0","1","2","6","4","4","8","9","2","6","7","3","4","9","6","1","8","5">>, <<"0",".","0","0","9","9">>, <<"0",".","0","1">>,
    <<"0",".","0","1","0","0","0","0","0","0","0","0","0","0","0","0","0","0","0","0","0","0","0","0","0","0","0","0","0","0","0","0","0","0","0","0","0","0","0","0","0","0","0","0","0","0","0","0","0","0","0","0","0","0","0","0","0","0","0","0","0","0","1">>, <<"0",".","9">>, <<"1">>, <<"1",".","5">>, <<"1","0">>, <<"I","n","f","i","n","i","t","y">>, <<"N","a","N">> }

\* the calls made: calculateAccuracy(a) and calculateAccuracy(b), or
\* calculateApproximationQuality(computed, target, a) and
\* calculateApproximationQuality(computed, target, b)
ScoringCalls ==
  { Request("calculateAccuracy", NoBody, JStr(a), JStr(b), <<>>) :
      a \in AbsoluteErrors, b \in AbsoluteErrors }
  \cup
  { Request("calculateApproximationQuality", NoBody, JStr(computed), JStr(target),
            <<a, b>>) :
      computed \in {<<"3",".","1","4","2","8","5","7","1","4","2","8","5","7","1","4","3">>, <<"1">>, <<"I","n","f","i","n","i","t","y">>},
      target \in {PiTarget, <<"1">>},
      a \in {<<"2","2","/","7">>, <<"(","2","2","/","7",")">>, <<"1","/","0">>},
      b \in {<<"2","2","/","7">>, <<"(","2","2","/","7",")">>, <<"1","/","0">>} }

ScoringInit ==
  /\ request \in ScoringCalls
  /\ response = ErrorResponse(0, "none", "null")
  /\ handler = Handler("idle", 0, <<>>, {}, 0)
  /\ client = App(<<>>, FALSE, "null", FALSE, {})

\* evaluator.calculateAccuracy(a) and evaluator.calculateAccuracy(b); the
\* response holds the texts of the two numbers returned
CallCalculateAccuracy ==
  /\ request.op = "calculateAccuracy"
  /\ response.success = "none"
  /\ response' = [ErrorResponse(0, "true", "null")
                    EXCEPT !.value = ToText(calculateAccuracy(Num(request.expression.v))),
                           !.expr  = ToText(calculateAccuracy(Num(request.target.v)))]
  /\ UNCHANGED <<request, handler, client>>

\* evaluator.calculateApproximationQuality(computed, target, expression) for
\* the two expressions; the response holds the two objects returned
CallCalculateApproximationQuality ==
  /\ request.op = "calculateApproximationQuality"
  /\ response.success = "none"
  /\ \E qa \in {calculateApproximationQuality(Num(request.expression.v), request.target,
                                               request.constants[1])},
        qb \in {calculateApproximationQuality(Num(request.expression.v), request.target,
                                               request.constants[2])} :
       response' = IF ~qa.ok \/ ~qb.ok
                   THEN ErrorResponse(0, "false", "Quality calculation failed")
                   ELSE [ErrorResponse(0, "true", "null")
                           EXCEPT !.results = << [quality |-> qa.q], [quality |-> qb.q] >>]
  /\ UNCHANGED <<request, handler, client>>

ScoringNext == CallCalculateAccuracy \/ CallCalculateApproximationQuality

ScoringSpec == ScoringInit /\ [][ScoringNext]_vars
---------------------------------------------------------------------------
(* Properties of POST /api/evaluate-batch                                  *)

\* C1 -- batch isolation: for every evaluate-batch request whose
\* approximations is an array, whatever its items are, the response has
\* success:true, every item that fails on its own is recorded in errors
\* under its original index, and every item that succeeds on its own is in
\* results under its index with the quality it gets on its own.
C1_BatchIsolation ==
  LET items    == request.approximations.items
      Alone(i) == EvaluateBatchResponse(ArrayBody(<<items[i]>>), ItemTable)
      Good(i)  == Alone(i).success = "true" /\ Len(Alone(i).results) = 1
  IN  (request.op = "evaluate-batch" /\ IsArray(request.approximations)) =>
        /\ response.success = "true"
        /\ \A i \in 1..Len(items) :
             IF Good(i)
             THEN \E r \in 1..Len(response.results) :
                    /\ response.results[r].index = i - 1
                    /\ response.results[r].quality = Alone(i).results[1].quality
             ELSE \E e \in 1..Len(response.errors) : response.errors[e].index = i - 1

\* C1, the failing case: a batch of a good item followed by null is answered
\* with status 500 and success:false, and the good item is not scored.
C1_NullItemAbortsBatch ==
  /\ request.op = "evaluate-batch"
  /\ request.approximations =
       ArrayBody(<<Approx(JStr(<<"2","2","/","7">>), JStr(PiTarget)), NullItem>>)
  /\ response.status = 500
  /\ response.success = "false"
  /\ response.results = <<>>

\* C2 -- ranking: in every batch response no result is followed by one of a
\* strictly greater score, and results of equal score are in input order.
C2_RankingStable ==
  (request.op = "evaluate-batch" /\ response.success = "true") =>
    \A i, j \in 1..Len(response.results) :
      i < j =>
        LET a == response.results[i]
            b == response.results[j]
        IN  /\ ~Less(a.quality.score, b.quality.score)
            /\ a.quality.score = b.quality.score => a.index < b.index

\* C2, the failing case: 22/7, 0/0 and 355/113 against pi are all ranked,
\* the score of 0/0 is NaN, and 22/7 stays ahead of the better 355/113.
C2_NaNScoreBreaksOrder ==
  /\ request.op = "evaluate-batch"
  /\ response.success = "true"
  /\ Len(response.results) = 3
  /\ response.results[1].expression = <<"2","2","/","7">>
  /\ response.results[2].quality.score.k = "nan"
  /\ response.results[3].expression = <<"3","5","5","/","1","1","3">>
  /\ Less(response.results[1].quality.score, response.results[3].quality.score)

\* C3 -- summary consistency: in every response to a batch of n items each
\* index 0..n-1 is in exactly one entry of results and errors together, and
\* summary.total = n, summary.successful = |results|, summary.failed =
\* |errors|, successful + failed = total.
C3_SummaryConsistency ==
  LET n == Len(request.approximations.items)
      InResults(k) == {r \in 1..Len(response.results) : response.results[r].index = k}
      InErrors(k)  == {e \in 1..Len(response.errors) : response.errors[e].index = k}
  IN  (request.op = "evaluate-batch" /\ IsArray(request.approximations)) =>
        /\ \A k \in 0..(n - 1) : Cardinality(InResults(k)) + Cardinality(InErrors(k)) = 1
        /\ response.summary.total = n
        /\ response.summary.successful = Len(response.results)
        /\ response.summary.failed = Len(response.errors)
        /\ response.summary.successful + response.summary.failed = response.summary.total

\* C3, the failing case: a batch of three items whose second is null gets a
\* response without results, errors or summary (the failure of C1).
C3_NoSummaryAfterThrow ==
  /\ request.op = "evaluate-batch"
  /\ Len(request.approximations.items) = 3
  /\ request.approximations.items[2] = NullItem
  /\ response.success = "false"
  /\ response.results = <<>>
  /\ response.errors = <<>>
  /\ response.summary.total = 0

\* C4 -- zero target: no ranked item has a target of zero, and no ranked
\* item has the relativeError Infinity; an item with a zero target is in
\* errors.
C4_ZeroTargetIsError ==
  LET items == request.approximations.items
      IsZeroText(s) == DecimalFromText(s).ok /\ IsZero(DecimalFromText(s).v)
  IN  (request.op = "evaluate-batch" /\ response.success = "true") =>
        /\ \A r \in 1..Len(response.results) :
             /\ ~IsZeroText(response.results[r].target)
             /\ response.results[r].quality.relativeError # <<"I","n","f","i","n","i","t","y">>
        /\ \A i \in 1..Len(items) :
             (items[i].t = "obj" /\ Get(items[i], "target") = JStr(<<"0">>)) =>
               \E e \in 1..Len(response.errors) : response.errors[e].index = i - 1

\* C4, the failing case: expression "1" with target "0" is ranked, with a
\* finite value and the relativeError Infinity.
C4_ZeroTargetRanked ==
  /\ request.op = "evaluate-batch"
  /\ response.success = "true"
  /\ \E r \in 1..Len(response.results) :
       /\ response.results[r].expression = <<"1">>
       /\ response.results[r].target = <<"0">>
       /\ response.results[r].computed = <<"1">>
       /\ response.results[r].quality.relativeError = <<"I","n","f","i","n","i","t","y">>

\* C5 -- non-finite results are failures: a call of evaluateExpression that
\* returns gives a finite value, and no ranked item has a computed value,
\* an absoluteError or a score that is NaN or infinite.
C5_NonFiniteFails ==
  LET FiniteText(s) == DecimalFromText(s).ok /\ IsFinite(DecimalFromText(s).v)
  IN  /\ (request.op = "evaluateExpression" /\ response.success = "true") =>
           FiniteText(response.value)
      /\ (request.op = "evaluate-batch" /\ response.success = "true") =>
           \A r \in 1..Len(response.results) :
             /\ FiniteText(response.results[r].computed)
             /\ FiniteText(response.results[r].quality.absoluteError)
             /\ IsFinite(response.results[r].quality.score)

\* C5, the failing case: evaluateExpression("1/0") returns Infinity.
C5_DivisionByZeroReturns ==
  /\ request.op = "evaluateExpression"
  /\ request.expression = JStr(<<"1","/","0">>)
  /\ response.success = "true"
  /\ response.value = <<"I","n","f","i","n","i","t","y">>

---------------------------------------------------------------------------
(* Properties of MathEvaluator.evaluateExpression                          *)

\* C6 -- precision is preserved: evaluateExpression of a built-in constant
\* name alone ("pi" in particular) returns the stored literal at the working
\* precision, that is, a value equal to the literal in its first 50
\* significant digits.
C6_PrecisionPreserved ==
  \A k \in 1..Len(BuiltinConstants) :
    (/\ request.op = "evaluateExpression"
     /\ request.expression = JStr(BuiltinConstants[k][1])
     /\ request.constants = <<>>) =>
      /\ response.success = "true"
      /\ RoundTo(Num(response.value), Precision) = RoundTo(Num(BuiltinConstants[k][2]), Precision)

\* C6, the failing case: evaluateExpression("pi") returns a value of no more
\* than DoubleDigits significant digits, which is not the stored literal.
C6_PiCutToDouble ==
  /\ request.op = "evaluateExpression"
  /\ request.expression = JStr(<<"p","i">>)
  /\ request.constants = <<>>
  /\ response.success = "true"
  /\ Len(Num(response.value).d) <= DoubleDigits
  /\ response.value # ToText(Num(CONSTANTS_values.pi))

\* C7 -- every supported function evaluates: evaluateExpression("f(x)")
\* returns for each of the thirteen names f and each argument x of its
\* domain, and ln(x) returns the value of mp.ln(x) and of log(x).
C7_SupportedFunctionsEvaluate ==
  LET InDomain(f, x) == ~(f \in {<<"l","o","g">>, <<"l","n">>} /\ x = <<"0">>)
      Value(text)    == evaluateExpression(JStr(text), <<>>)
  IN  \A f \in SupportedFunctions, x \in {<<"0">>, <<"1">>} :
        (/\ request.op = "evaluateExpression"
         /\ request.expression = JStr(FnCall(f, x))
         /\ request.constants = <<>>
         /\ InDomain(f, x)) =>
          /\ response.success = "true"
          /\ f = <<"l","n">> =>
               /\ Value(<<"m","p",".">> \o FnCall(f, x)).ok
               /\ response.value = ToText(Value(<<"m","p",".">> \o FnCall(f, x)).v)
               /\ response.value = ToText(Value(FnCall(<<"l","o","g">>, x)).v)

\* C7, the failing case: evaluateExpression("ln(1)") throws although
\* mp.ln(1) and log(1) return 0.
C7_LnThrows ==
  /\ request.op = "evaluateExpression"
  /\ request.expression = JStr(<<"l","n","(","1",")">>)
  /\ request.constants = <<>>
  /\ response.success = "false"
  /\ evaluateExpression(JStr(<<"m","p",".","l","n","(","1",")">>), <<>>).ok
  /\ ToText(evaluateExpression(JStr(<<"l","o","g","(","1",")">>), <<>>).v) = <<"0">>

\* C8 -- restricted grammar: evaluateExpression returns only for an input
\* that, once lowercased and freed of mp. prefixes, is made of numeric
\* literals, the operators + - * / ^, parentheses, blanks, the seven
\* constant names, the thirteen function names and the names of the custom
\* constants passed with it.
C8_RestrictedGrammar ==
  LET s == CleanMpSyntax(request.expression.v)
      Names == SupportedFunctions
                 \cup {BuiltinConstants[k][1] : k \in 1..Len(BuiltinConstants)}
                 \cup {request.constants[k][1] : k \in 1..Len(request.constants)}
      WordStart(i) == IsWordChar(s[i]) /\ WordBoundary(s, i)
      WordEnd(i)   == CHOOSE j \in i..Len(s) :
                         /\ \A k \in i..j : IsWordChar(s[k])
                         /\ WordBoundary(s, j + 1)
      Word(i)      == SubSeq(s, i, WordEnd(i))
      IsLiteral(w) == LET m == DigitsEnd(w, 1)
                      IN  /\ m > 1
                          /\ \/ m = Len(w) + 1
                             \/ /\ w[m] = "e"
                                /\ m < Len(w)
                                /\ DigitsEnd(w, m + 1) = Len(w) + 1
  IN  (request.op = "evaluateExpression" /\ response.success = "true") =>
        /\ s # <<>>
        /\ \A i \in 1..Len(s) :
             /\ IsWordChar(s[i]) \/ s[i] \in {".", "+", "-", "*", "/", "^", "(", ")", " "}
             /\ WordStart(i) => Word(i) \in Names \/ IsLiteral(Word(i))

\* C8, the failing case: evaluateExpression returns a value for the
\* assignment x=3.
C8_AssignmentEvaluates ==
  /\ request.op = "evaluateExpression"
  /\ request.expression = JStr(<<"x","=","3">>)
  /\ request.constants = <<>>
  /\ response.success = "true"
  /\ response.value = <<"3">>

\* C9 -- custom constants take precedence: when the custom constants define
\* a built-in name, the call gives what it gives once every whole-word
\* occurrence of the custom names has been replaced by the custom values.
C9_CustomConstantsTakePrecedence ==
  LET clean    == CleanMpSyntax(request.expression.v)
      custom   == ReplaceEachWord(clean, request.constants, 1)
      expected == evaluateExpression(JStr(custom), <<>>)
      Builtin  == {BuiltinConstants[k][1] : k \in 1..Len(BuiltinConstants)}
  IN  (/\ request.op = "evaluateExpression"
       /\ \E k \in 1..Len(request.constants) : request.constants[k][1] \in Builtin) =>
        /\ (response.success = "true") = expected.ok
        /\ expected.ok => response.value = ToText(expected.v)

\* C9, the failing case: evaluateExpression("pi", {pi: "3"}) returns the
\* built-in value of pi, not 3.
C9_BuiltinPiWins ==
  /\ request.op = "evaluateExpression"
  /\ request.expression = JStr(<<"p","i">>)
  /\ request.constants = << <<<<"p","i">>, <<"3">>>> >>
  /\ response.success = "true"
  /\ response.value # <<"3">>
  /\ response.value = ToText(evaluateExpression(JStr(<<"p","i">>), <<>>).v)

\* C10 -- whole-word substitution: the text handed to evaluate() is the
\* cleaned expression with every whole-word occurrence of a constant name
\* replaced by the text of that constant and nothing else changed, the
\* occurrences being those of the cleaned expression (inserted text is not
\* matched again).  Stated for custom constants that redefine no built-in
\* name; redefinition is the matter of C9.
C10_WholeWordSubstitution ==
  LET s       == CleanMpSyntax(request.expression.v)
      table   == BuiltinConstants \o request.constants
      Builtin == {BuiltinConstants[k][1] : k \in 1..Len(BuiltinConstants)}
      Hit(i)  == {k \in 1..Len(table) : MatchWordAt(s, i, table[k][1])}
      Inside(i) == \E j \in 1..(i - 1) : \E k \in Hit(j) : j + Len(table[k][1]) > i
      atOnce  == Flatten([i \in 1..Len(s) |->
                            IF Hit(i) # {} THEN table[CHOOSE k \in Hit(i) : TRUE][2]
                            ELSE IF Inside(i) THEN <<>>
                            ELSE <<s[i]>>], 1, Len(s))
  IN  (/\ request.op = "evaluateExpression"
       /\ \A k \in 1..Len(request.constants) : request.constants[k][1] \notin Builtin) =>
        response.expr = atOnce

\* C10, the failing case: with the custom constants {a: "b", b: "2"} the
\* expression "a" is handed to evaluate() as "2": the text "b" inserted for
\* a has been matched by the replacement of b.
C10_InsertedTextReplaced ==
  /\ request.op = "evaluateExpression"
  /\ request.expression = JStr(<<"a">>)
  /\ request.constants = << <<<<"a">>, <<"b">>>>, <<<<"b">>, <<"2">>>> >>
  /\ response.expr = <<"2">>
  /\ response.success = "true"
  /\ response.value = <<"2">>
---------------------------------------------------------------------------
(* Properties of the evaluation of one item                                *)

\* the response of POST /api/evaluate to each (expression, target) pair of
\* the items: the item evaluated alone
C11_Alone ==
  [p \in ItemInputs |-> EvaluateResponse(JStr(p[1]), JStr(p[2]), Undefined)]

C12_InputShape ==
  (request.op = "evaluate-batch" /\ ~IsArray(request.approximations)) =>
    /\ Len(response.results) = 0
    /\ Len(response.errors) = 1
    /\ response.errors[1].index = -1

\* C12, the failing case: for a payload that is not an array the handler
\* answers 400 with an error text only; the entry of index -1 that parseBatch
\* makes for such a payload is in no response.
C12_NotAnArrayAnswered400 ==
  /\ request.op = "evaluate-batch"
  /\ request.approximations = Body("obj", <<>>, <<>>)
  /\ parseBatch(request.approximations).errors =
       <<ErrorEntry(-1, <<>>, "Input must be an array")>>
  /\ response.status = 400
  /\ response.error = "approximations must be an array"
  /\ response.errors = <<>>

\* C13 -- error entries are diagnosable: every entry of errors in a batch
\* response carries the index of an item of the request and the expression
\* text of that item as the field mapping resolves it (expression, expr or
\* formula), or "unknown" when the item has none; for missing-field errors
\* as for evaluator and scorer errors.
C13_ErrorsDiagnosable ==
  LET items == request.approximations.items
      Resolved(approx) ==
        IF approx.t = "null" THEN Undefined
        ELSE OrElse(Get(approx, "expression"),
               OrElse(Get(approx, "expr"), Get(approx, "formula")))
      Text(approx) == IF Truthy(Resolved(approx)) THEN ToStringJS(Resolved(approx))
                      ELSE <<"u","n","k","n","o","w","n">>
  IN  (request.op = "evaluate-batch" /\ response.success = "true") =>
        \A e \in 1..Len(response.errors) :
          /\ response.errors[e].index \in 0..(Len(items) - 1)
          /\ response.errors[e].expression = Text(items[response.errors[e].index + 1])

\* C13, the failing case: the item {expr: "22/7", target: 0} is rejected for
\* its target, and its error entry carries the text "missing", neither the
\* expression "22/7" that the field mapping resolved nor "unknown".
C13_MissingInsteadOfExpression ==
  /\ request.op = "evaluate-batch"
  /\ request.approximations =
       ArrayBody(<<ObjectItem([NoFields EXCEPT !["expr"] = JStr(<<"2","2","/","7">>),
                                               !["target"] = JNum(<<"0">>)])>>)
  /\ parseApproximation(request.approximations.items[1], 0).error =
       "Missing target value field"
  /\ Len(response.errors) = 1
  /\ response.errors[1].index = 0
  /\ response.errors[1].expression = <<"m","i","s","s","i","n","g">>

\* C14 -- required fields: in a batch response every ranked item has a
\* non-empty expression text and a non-empty target text; an item with none
\* of expression, expr, formula or none of value, target, computed, result
\* has a missing-field entry in errors and is not ranked; an item that
\* supplies an expression and a target, the number 0 included, has no
\* missing-field entry.
C14_RequiredFields ==
  LET items == request.approximations.items
      Present(approx, names) == \E n \in names : Get(approx, n) # Undefined
      Supplied(approx) ==
        /\ Present(approx, {"expression", "expr", "formula"})
        /\ Present(approx, {"value", "target", "computed", "result"})
      MissingField(k) ==
        \E e \in 1..Len(response.errors) :
          /\ response.errors[e].index = k
          /\ response.errors[e].error \in
               {"Missing expression field", "Missing target value field"}
      Ranked(k) == \E r \in 1..Len(response.results) : response.results[r].index = k
  IN  (request.op = "evaluate-batch" /\ response.success = "true") =>
        /\ \A r \in 1..Len(response.results) :
             /\ response.results[r].expression # <<>>
             /\ response.results[r].target # <<>>
        /\ \A k \in 0..(Len(items) - 1) :
             IF Supplied(items[k + 1]) THEN ~MissingField(k)
             ELSE MissingField(k) /\ ~Ranked(k)

\* C14, the failing case: the second item supplies the number 0 as target
\* and gets the entry "Missing target value field": 0 is falsy, so the chain
\* value || target || computed || result yields undefined.
C14_ZeroTargetTreatedAsMissing ==
  /\ request.op = "evaluate-batch"
  /\ request.approximations =
       ArrayBody(<<Approx(JStr(<<"2","2","/","7">>), JStr(PiTarget)),
                   ObjectItem([NoFields EXCEPT !["expr"] = JStr(<<"2","2","/","7">>),
                                               !["target"] = JNum(<<"0">>)])>>)
  /\ Get(request.approximations.items[2], "target") = JNum(<<"0">>)
  /\ Len(response.results) = 1
  /\ response.results[1].index = 0
  /\ Len(response.errors) = 1
  /\ response.errors[1].index = 1
  /\ response.errors[1].error = "Missing target value field"

\* C15 -- accuracy range: the accuracy of every quality in a response is an
\* integer n of 0..50; n = 50 when absoluteError is 0, and otherwise n is
\* floor(-log10(absoluteError)) clamped to 0..50, that is
\* 10^-(n+1) < absoluteError (when n < 50) and absoluteError <= 10^-n (when
\* n > 0).
C15_AccuracyRange ==
  LET IsFloor(err, n) ==
        IF IsZero(err) THEN n = Precision
        ELSE /\ err.k # "nan"
             /\ n < Precision => Less(Fin(FALSE, <<1>>, 0 - n - 1), err)
             /\ n > 0 => ~Less(Fin(FALSE, <<1>>, 0 - n), err)
  IN  (request.op \in {"evaluate-batch", "evaluate"} /\ response.success = "true") =>
        \A r \in 1..Len(response.results) :
          \E n \in 0..Precision :
            /\ response.results[r].quality.accuracy = IntValue(n)
            /\ IsFloor(Num(response.results[r].quality.absoluteError), n)

\* C15, the failing case: the item 0/0 is ranked (C5) with the absolute
\* error NaN, and its accuracy is NaN: Math.max(0, Math.min(50, NaN)).
C15_AccuracyIsNaN ==
  /\ request.op = "evaluate-batch"
  /\ request.approximations = ArrayBody(<<Approx(JStr(<<"0","/","0">>), JStr(<<"1">>))>>)
  /\ Len(response.results) = 1
  /\ response.results[1].quality.absoluteError = Txt_NaN
  /\ response.results[1].quality.accuracy = NaNValue

\* C16 -- accuracy monotonicity: for two absolute errors a <= b,
\* calculateAccuracy(a) >= calculateAccuracy(b).
C16_AccuracyMonotone ==
  LET a == Num(request.expression.v)
      b == Num(request.target.v)
      LessEq(x, y) == x.k # "nan" /\ y.k # "nan" /\ ~Less(y, x)
  IN  (request.op = "calculateAccuracy" /\ response.success = "true" /\ LessEq(a, b)) =>
        LessEq(Num(response.expr), Num(response.value))

\* C16, its case: 0.0009 < 0.01, with the accuracies 3 and 2.
C16_SmallerErrorHigherAccuracy ==
  /\ request.op = "calculateAccuracy"
  /\ request.expression = JStr(<<"0",".","0","0","0","9">>)
  /\ request.target = JStr(<<"0",".","0","1">>)
  /\ Less(Num(request.expression.v), Num(request.target.v))
  /\ response.value = <<"3">>
  /\ response.expr = <<"2">>

\* C17 -- absolute error: for every ranked item absoluteError >= 0, and
\* absoluteError = 0 exactly when the computed value and the target are the
\* same number, whatever the number of digits of the target.
C17_AbsoluteError ==
  (request.op \in {"evaluate-batch", "evaluate"} /\ response.success = "true") =>
    \A r \in 1..Len(response.results) :
      LET err == Num(response.results[r].quality.absoluteError)
      IN  /\ err.k # "nan"
          /\ ~err.neg
          /\ IsZero(err) <=> Num(response.results[r].computed) = Num(response.results[r].target)

\* C17, the failing case: POST /api/evaluate with the expression 0/0 and the
\* target 1 answers 200 with the computed value NaN (C5) and the absolute
\* error NaN, which is not >= 0.
C17_AbsoluteErrorIsNaN ==
  /\ request.op = "evaluate"
  /\ request.expression = JStr(<<"0","/","0">>)
  /\ request.target = JStr(<<"1">>)
  /\ response.status = 200
  /\ response.results[1].computed = Txt_NaN
  /\ response.results[1].quality.absoluteError = Txt_NaN

\* C18 -- complexity formula: the complexity reported for an expression is
\* its length + 2 * (number of the characters + - * / ^ ( )) + 3 * (number
\* of whole-word occurrences of the thirteen function names, sinh, cosh and
\* tanh included) + (number of whole-word occurrences of the seven constant
\* names) + (number of numeric literals, the maximal digit runs with at most
\* one decimal point).
C18_ComplexityFormula ==
  LET Formula(s) ==
        LET RunStart(j) == CHOOSE b \in 1..j :
                             /\ \A k \in b..j : s[k] \in Digit
                             /\ b > 1 => s[b - 1] \notin Digit
            RECURSIVE StartsLiteral(_)
            StartsLiteral(i) ==
              /\ s[i] \in Digit
              /\ i > 1 => s[i - 1] \notin Digit
              /\ ~(/\ i > 2
                   /\ s[i - 1] = "."
                   /\ s[i - 2] \in Digit
                   /\ StartsLiteral(RunStart(i - 2)))
        IN  Len(s)
            + 2 * Cardinality({i \in 1..Len(s) : s[i] \in {"+", "-", "*", "/", "^", "(", ")"}})
            + 3 * CountWords(s, SupportedFunctions)
            + CountWords(s, {<<"p","i">>, <<"e">>, <<"p","h","i">>, <<"g","a","m","m","a">>, <<"s","q","r","t","2">>, <<"s","q","r","t","3">>, <<"l","n","2">>})
            + Cardinality({i \in 1..Len(s) : StartsLiteral(i)})
  IN  (request.op \in {"evaluate-batch", "evaluate"} /\ response.success = "true") =>
        \A r \in 1..Len(response.results) :
          response.results[r].quality.complexity = Formula(response.results[r].expression)

\* C18, the failing case: the complexity of sinh(1) is reported as 12
\* (7 characters, 2 parentheses, 1 number): the call of sinh is not counted,
\* the formula gives 15.
C18_SinhNotCounted ==
  /\ request.op = "evaluate"
  /\ request.expression = JStr(<<"s","i","n","h","(","1",")">>)
  /\ request.target = JStr(<<"1">>)
  /\ response.status = 200
  /\ response.results[1].quality.complexity = 12

\* the value evaluateExpression returns for the expression of each input
C19_Computed == [p \in ItemInputs |-> evaluateExpression(JStr(p[1]), <<>>)]

\* (1 / (absoluteError + 1e-50)) * (1 / (complexity + 1)) as one quotient to
\* the 60 digits of the decimal arithmetic, rounded to a double
C19_Score(err, c) ==
  ToNumber(DivTo(IntValue(1),
                 MulExact(AddExact(err, Fin(FALSE, <<1>>, 0 - Precision)), IntValue(c + 1)),
                 DecimalPrecision))

\* C19_Score for the absolute errors and complexities of the items
C19_Scores ==
  [e \in { <<ItemTable[p].quality.absoluteError, ItemTable[p].quality.complexity>> :
             p \in {i \in ItemInputs : ItemTable[i].ok} } |-> C19_Score(Num(e[1]), e[2])]

\* C19 -- exact match does not crash: an item whose computed value is its
\* target exactly is ranked, with accuracy 50, eleganceScore 0 and a finite
\* positive score, (1 / 1e-50) * (1 / (complexity + 1)); and the score of
\* every ranked item is (1 / (absoluteError + 1e-50)) * (1 / (complexity + 1)),
\* as a double (NaN for the absolute error NaN).
C19_ExactMatchScored ==
  LET Score(err, c) ==
        IF <<err, c>> \in DOMAIN C19_Scores THEN C19_Scores[<<err, c>>]
        ELSE C19_Score(Num(err), c)
      Exact(computed, target) ==
        /\ DecimalFromText(target).ok
        /\ computed.k = "fin"
        /\ computed = Num(target)
      items == request.approximations.items
      Key(k) == <<parseApproximation(items[k], k - 1).expression,
                  parseApproximation(items[k], k - 1).targetValue>>
  IN  /\ (request.op \in {"evaluate-batch", "evaluate"} /\ response.success = "true") =>
          \A r \in 1..Len(response.results) :
            LET x == response.results[r]
            IN  /\ x.quality.score = Score(x.quality.absoluteError, x.quality.complexity)
                /\ Exact(Num(x.computed), x.target) =>
                     /\ x.quality.accuracy = IntValue(Precision)
                     /\ x.quality.eleganceScore = <<"0">>
                     /\ x.quality.score.k = "fin"
                     /\ ~x.quality.score.neg /\ ~IsZero(x.quality.score)
                     /\ x.quality.score =
                          ToNumber(DivTo(Fin(FALSE, <<1>>, Precision),
                                         IntValue(x.quality.complexity + 1), DecimalPrecision))
      /\ (request.op = "evaluate-batch" /\ response.success = "true") =>
          \A k \in 1..Len(items) :
            (/\ parseApproximation(items[k], k - 1).error = "null"
             /\ C19_Computed[Key(k)].ok
             /\ Exact(C19_Computed[Key(k)].v, Key(k)[2])) =>
               \E r \in 1..Len(response.results) : response.results[r].index = k - 1
      /\ (/\ request.op = "evaluate"
          /\ request.expression.t = "str" /\ Truthy(request.expression)
          /\ request.target.t = "str" /\ Truthy(request.target)
          /\ evaluateExpression(request.expression, <<>>).ok
          /\ Exact(evaluateExpression(request.expression, <<>>).v, request.target.v)) =>
            response.status = 200

\* C19, its case: the expression 1 with the target 1 is answered 200 with the
\* absolute error 0, the accuracy 50, the elegance score 0 and the score
\* 1e50 / 3 as a double.
C19_OneIsOne ==
  /\ request.op = "evaluate"
  /\ request.expression = JStr(<<"1">>)
  /\ request.target = JStr(<<"1">>)
  /\ response.status = 200
  /\ response.results[1].quality.absoluteError = <<"0">>
  /\ response.results[1].quality.complexity = 2
  /\ response.results[1].quality.accuracy = IntValue(Precision)
  /\ response.results[1].quality.eleganceScore = <<"0">>
  /\ response.results[1].quality.score = Num(<<"3",".","3","3","3","3","3","3","3","3","3","3","3","3","3","3","3","3","e","4","9">>)

---------------------------------------------------------------------------
(* Properties of the endpoints and of the client                           *)

\* C21 -- end-to-end example: a batch of the items 22/7 and 355/113, both
\* with the target 3.141592653589793, in either order, ranks both, with the
\* accuracy 6 for 355/113 and 2 for 22/7, and 355/113 comes first in results.
C21_EndToEndExample ==
  LET a == Approx(JStr(<<"2","2","/","7">>), JStr(PiTarget))
      b == Approx(JStr(<<"3","5","5","/","1","1","3">>), JStr(PiTarget))
  IN  (/\ request.op = "evaluate-batch"
       /\ request.approximations \in {ArrayBody(<<a, b>>), ArrayBody(<<b, a>>)}) =>
        /\ response.status = 200
        /\ response.errors = <<>>
        /\ Len(response.results) = 2
        /\ response.results[1].expression = <<"3","5","5","/","1","1","3">>
        /\ response.results[1].quality.accuracy = IntValue(6)
        /\ response.results[2].expression = <<"2","2","/","7">>
        /\ response.results[2].quality.accuracy = IntValue(2)

\* C21, its case: 22/7 is submitted first and returned second, after
\* 355/113, whose score is the greater.
C21_BetterApproximationFirst ==
  /\ request.op = "evaluate-batch"
  /\ request.approximations =
       ArrayBody(<<Approx(JStr(<<"2","2","/","7">>), JStr(PiTarget)),
                   Approx(JStr(<<"3","5","5","/","1","1","3">>), JStr(PiTarget))>>)
  /\ Len(response.results) = 2
  /\ response.results[1].index = 1
  /\ response.results[2].index = 0
  /\ Less(response.results[2].quality.score, response.results[1].quality.score)
  /\ response.results[1].quality.accuracy = IntValue(6)
  /\ response.results[2].quality.accuracy = IntValue(2)

\* C25 -- single evaluation: POST /api/evaluate has exactly one of three
\* outcomes.  It answers 400 when expression or target is missing; success
\* true with one result holding the computed value and the quality exactly
\* when evaluation and scoring succeed; and otherwise 500 with success false
\* and the message of the failure.  The quality of a success is the quality
\* the batch endpoint returns for an item of the same expression and target.
C25_SingleEvaluation ==
  LET Missing(j) == j = Undefined \/ j = JStr(<<>>)
      computed == evaluateExpression(request.expression, <<>>)
      Scored == /\ computed.ok
                /\ calculateApproximationQuality(computed.v, request.target,
                                                  request.expression.v).ok
      key    == <<request.expression.v, ToStringJS(request.target)>>
      batch  == EvaluateBatchResponse(
                  ArrayBody(<<Approx(request.expression, request.target)>>),
                  [p \in {key} |-> EvaluateItem(key[1], key[2])])
  IN  request.op = "evaluate" =>
        /\ (Missing(request.expression) \/ Missing(request.target)) => response.status = 400
        /\ response.status \in {200, 400, 500}
        /\ response.status = 400 => response.success = "none" /\ response.results = <<>>
        /\ response.status = 500 =>
             /\ response.success = "false"
             /\ response.results = <<>>
             /\ response.error \in {"Expression evaluation failed", "Quality calculation failed"}
             /\ ~Scored
        /\ response.status = 200 =>
             /\ response.success = "true"
             /\ Scored
             /\ Len(response.results) = 1
             /\ response.results[1].computed = ToText(computed.v)
             /\ response.results[1].quality # NoQuality
             /\ Len(batch.results) = 1
             /\ batch.results[1].quality = response.results[1].quality
             /\ batch.results[1].computed = response.results[1].computed

\* C25, its case: all three outcomes exist.  Here: the expression 22/7 with
\* the target abc, for which the scoring throws, is answered 500 with
\* success false.
C25_ScoringFailureReported ==
  /\ request.op = "evaluate"
  /\ request.expression = JStr(<<"2","2","/","7">>)
  /\ request.target = JStr(<<"a","b","c">>)
  /\ evaluateExpression(request.expression, <<>>).ok
  /\ response.status = 500
  /\ response.success = "false"
  /\ response.error = "Quality calculation failed"

\* C26 -- bestScore is the maximum: in a batch response with a ranked item
\* summary.bestScore is the score of the first of results and no ranked item
\* has a greater score; with no ranked item it is 0.
C26_BestScoreIsMaximum ==
  (request.op = "evaluate-batch" /\ response.success = "true") =>
    IF response.results = <<>> THEN response.summary.bestScore = IntValue(0)
    ELSE /\ response.summary.bestScore = response.results[1].quality.score
         /\ \A r \in 1..Len(response.results) :
              ~Less(response.summary.bestScore, response.results[r].quality.score)

\* C26, the failing case: in the batch 22/7, 0/0, 355/113 the score NaN of
\* 0/0 (C5) leaves 22/7 first (C2), so bestScore is the score of 22/7, which
\* is less than the score of 355/113.
C26_BestScoreNotGreatest ==
  /\ request.op = "evaluate-batch"
  /\ request.approximations =
       ArrayBody(<<Approx(JStr(<<"2","2","/","7">>), JStr(PiTarget)),
                   Approx(JStr(<<"0","/","0">>), JStr(<<"1">>)),
                   Approx(JStr(<<"3","5","5","/","1","1","3">>), JStr(PiTarget))>>)
  /\ Len(response.results) = 3
  /\ response.results[1].expression = <<"2","2","/","7">>
  /\ response.summary.bestScore = response.results[1].quality.score
  /\ response.results[3].expression = <<"3","5","5","/","1","1","3">>
  /\ Less(response.summary.bestScore, response.results[3].quality.score)

\* C30 -- case-insensitive matching is consistent: an expression and the same
\* text with its names in lower case (PI/2 and pi/2, SQRT(2) and sqrt(2))
\* get the same outcome from POST /api/evaluate for the same target: the same
\* computed value, the same complexity and the same score.
C30_CaseConsistent ==
  LET lower == EvaluateResponse(JStr(ToLowerCase(request.expression.v)), request.target,
                                Undefined)
  IN  (request.op = "evaluate" /\ request.expression.t = "str") =>
        /\ response.status = lower.status
        /\ response.status = 200 =>
             /\ response.results[1].computed = lower.results[1].computed
             /\ response.results[1].quality.complexity = lower.results[1].quality.complexity
             /\ response.results[1].quality.score = lower.results[1].quality.score

\* C30, the failing case: PI/2 is evaluated like pi/2, to 1.5707963267948966,
\* but its complexity is 7 where that of pi/2 is 8: the scorer does not find
\* the constant in PI.
C30_UpperCaseConstantNotCounted ==
  /\ request.op = "evaluate"
  /\ request.expression = JStr(<<"P","I","/","2">>)
  /\ request.target = JStr(PiTarget)
  /\ response.status = 200
  /\ response.results[1].computed = <<"1",".","5","7","0","7","9","6","3","2","6","7","9","4","8","9","6","6">>
  /\ response.results[1].quality.complexity = 7
  /\ calculateComplexity(<<"p","i","/","2">>) = 8


C23_SixFields ==
  (request.op = "ai-evaluate" /\ handler.pc = "done" /\ IsArray(request.results)) =>
    \A k \in 1..Len(request.results.items) :
      /\ k <= Len(response.results)
      /\ "aiEvaluation" \in DOMAIN response.results[k].f
      /\ response.results[k].f.aiEvaluation.t = "obj"
      /\ {"accuracy", "efficiency", "novelty", "stability", "generality",
          "recommendation"} \subseteq DOMAIN response.results[k].f.aiEvaluation.f

\* the service replied with a JSON object that has the accuracy field only,
\* and the item is returned with this object as its aiEvaluation
C23_PartialReplyPassedOn ==
  /\ request.op = "ai-evaluate" /\ response.success = "true"
  /\ Len(response.results) = 1
  /\ response.results[1].f.aiEvaluation.t = "obj"
  /\ DOMAIN response.results[1].f.aiEvaluation.f = {"accuracy"}

\* C24 -- AI calls are sequential and rate-limited: at most one request to
\* the service is in flight; a request is issued only when none is in flight
\* and, if an earlier item had a request, at least DelayMs milliseconds after
\* that request completed; the handler never waits after the last item; and
\* as every request to the service settles, the endpoint responds.
C24_SequentialRateLimited ==
  /\ [](Cardinality(handler.fetching) <= 1)
  /\ [][(handler.fetching' # handler.fetching /\ handler.fetching' # {}) =>
          /\ handler.fetching = {}
          /\ (\E j \in 1..handler.i : request.results.items[j].t = "obj") =>
                handler.elapsed >= DelayMs]_vars
  /\ [](handler.pc = "delay" => handler.i < Len(request.results.items) - 1)
  /\ <>(handler.pc = "done" /\ response.status # 0)

\* the request of the second item is in flight, issued a second after the
\* request of the first item completed
C24_SecondRequestAfterDelay ==
  /\ request.op = "ai-evaluate"
  /\ handler.pc = "fetch" /\ handler.fetching = {1}
  /\ Len(handler.evaluatedResults) = 1
  /\ "evaluationError" \notin DOMAIN handler.evaluatedResults[1].f
  /\ handler.elapsed = DelayMs

\* C27 -- no stale overwrite in the UI: when the response of an AI evaluation
\* replaces the displayed results, the results that were displayed until then
\* are the ones the AI evaluation was computed from.
C27_NoStaleOverwrite ==
  [][\A sent \in client.inFlight \ client'.inFlight :
       (sent.url = "/api/ai-evaluate" /\ client'.results # client.results) =>
         sent.body = client.results]_vars

\* an AI evaluation of 355/113 and 22/7 is in flight while the results of
\* the batch evaluated after it was sent are displayed
C27_NewerResultsDuringAiEvaluation ==
  /\ client.aiEvaluating /\ ~client.loading
  /\ Len(client.results) = 1
  /\ client.results[1].expression = "(1 + sqrt(5))/2"
  /\ \E sent \in client.inFlight :
       sent.url = "/api/ai-evaluate" /\ Len(sent.body) = 2

\* C28 -- UI busy flags always clear: loading is true exactly while a request
\* to /api/evaluate-batch is in flight and aiEvaluating exactly while a
\* request to /api/ai-evaluate is in flight; either flag, once true, becomes
\* false again; and while there are no results no request to
\* /api/ai-evaluate is sent and aiEvaluating is not set.
C28_BusyFlags ==
  /\ [](client.loading <=> \E sent \in client.inFlight : sent.url = "/api/evaluate-batch")
  /\ [](client.aiEvaluating <=> \E sent \in client.inFlight : sent.url = "/api/ai-evaluate")
  /\ (client.loading ~> ~client.loading)
  /\ (client.aiEvaluating ~> ~client.aiEvaluating)
  /\ [][client.results = <<>> =>
          /\ \A sent \in client'.inFlight \ client.inFlight : sent.url # "/api/ai-evaluate"
          /\ client'.aiEvaluating => client.aiEvaluating]_vars

\* handleAiEvaluate has been called without results while a batch evaluation
\* is in flight: the error is set, no AI request is in flight
C28_NoResultsNoRequest ==
  /\ client.error = "No results to evaluate. Please run mathematical evaluation first."
  /\ client.loading /\ ~client.aiEvaluating
  /\ Cardinality(client.inFlight) = 1

\* an item that uses only the fields expression and target, with string
\* values (no item of the model has an mp. prefix)
C29_Canonical(item) ==
  /\ item.t = "obj"
  /\ \A n \in FieldNames :
       IF n \in {"expression", "target"} THEN Get(item, n).t = "str"
       ELSE Get(item, n) = Undefined

C29_Pairs(errors) == { <<errors[k].index, errors[k].error>> : k \in 1..Len(errors) }

\* C29 as claimed -- the two batch drivers agree: for a batch of canonical
\* items the drivers return the same ranked results, the same summary counts
\* and the same set of (index, error) pairs.
C29_DriversAgree ==
  (/\ request.op = "evaluate-batch" /\ IsArray(request.approximations)
   /\ \A k \in 1..Len(request.approximations.items) :
        C29_Canonical(request.approximations.items[k])) =>
    \E original \in {OriginalBatchResponse(request.approximations, ItemTable)} :
      /\ response.results = original.results
      /\ response.summary = original.summary
      /\ C29_Pairs(response.errors) = C29_Pairs(original.errors)

\* C29 as amended -- for a batch of canonical items the drivers return the
\* same ranked results, the same summary counts and errors for the same
\* indices; the error texts are the same for every item whose expression and
\* target are not empty.
C29_DriversAgreeButForMissingFields ==
  (/\ request.op = "evaluate-batch" /\ IsArray(request.approximations)
   /\ \A k \in 1..Len(request.approximations.items) :
        C29_Canonical(request.approximations.items[k])) =>
    \E original \in {OriginalBatchResponse(request.approximations, ItemTable)} :
      /\ response.results = original.results
      /\ response.summary = original.summary
      /\ {p[1] : p \in C29_Pairs(response.errors)} = {p[1] : p \in C29_Pairs(original.errors)}
      /\ \A p \in C29_Pairs(response.errors) \cup C29_Pairs(original.errors) :
           (/\ Truthy(Get(request.approximations.items[p[1] + 1], "expression"))
            /\ Truthy(Get(request.approximations.items[p[1] + 1], "target"))) =>
             p \in C29_Pairs(response.errors) \cap C29_Pairs(original.errors)

\* a canonical batch with a ranked item, an item that fails in evaluation
\* and an item whose target is the empty string
C29_RankedFailedAndEmpty ==
  /\ request.op = "evaluate-batch" /\ IsArray(request.approximations)
  /\ Len(request.approximations.items) = 3
  /\ \A k \in 1..3 : C29_Canonical(request.approximations.items[k])
  /\ response.success = "true"
  /\ Len(response.results) = 1
  /\ C29_Pairs(response.errors) =
       {<<0, "Missing target value field">>, <<2, "Expression evaluation failed">>}
=============================================================================
